---- MODULE Spec2Model ----
(***************************************************************************)
(* Exio hub (exiod): the session registry, the /_connect handshake, the    *)
(* session lifecycle goroutine and the transport session.                  *)
(*                                                                         *)
(* Goroutines are processes p \in Procs with a program counter pc[p]; a    *)
(* registry method is entered by setting pc[p] to the method's name and    *)
(* returns to rpc[p] with its result in res[p].  Every access to a shared  *)
(* object (sync.Map, atomic counter, mutex, listener, session) is one      *)
(* step, so that every interleaving the Go scheduler can produce is a      *)
(* behaviour.                                                              *)
(***************************************************************************)
EXTENDS Integers, Sequences, FiniteSets, TLC

\* ------------------------------------------------------------- bounds
\* goroutines (API callers / concurrent handshakes)
NumProcs == 3
\* size of the configured TCP port range
NumPorts == 2
\* calls the sequential driver makes
MaxCalls == 3
\* CloseAll calls the shutdown path makes
MaxCloseAll == 2
\* longest identifier enumerated exhaustively by the validation specification
MaxIdLen == 4

\* ---------------------------------------------------- program constants
MinSubdomainLen == 3
MaxSubdomainLen == 63
RegexMiddleMin == 1
RegexMiddleMax == 61
DefaultTCPPortStart == 10000
StatusSwitchingProtocols == 101
StatusBadRequest == 400
StatusUnauthorized == 401
StatusConflict == 409
StatusInternalServerError == 500
StatusServiceUnavailable == 503

Procs == 1 .. NumProcs
\* a session / listener object that exists before the checked calls start
PreExisting == NumProcs + 1
Objs == 1 .. (NumProcs + 1)

tcpPortStart == DefaultTCPPortStart
tcpPortEnd == tcpPortStart + NumPorts - 1

\* ------------------------------------------------------------- strings
\* An identifier is a sequence of characters (one-character strings).
LowerAlnum == {"a", "b", "c", "0"}
UpperLetters == {"A", "B", "C"}

ToLowerChar(c) ==
  CASE c = "A" -> "a"
    [] c = "B" -> "b"
    [] c = "C" -> "c"
    [] OTHER -> c

\* the call to strings.ToLower left out
ToLower_Identity(s) == s

ToLower(s) == [i \in 1 .. Len(s) |-> ToLowerChar(s[i])]

\* the regex with the last character class widened to [a-z0-9-]
validSubdomainRegex_TrailingHyphen(s) ==
  /\ Len(s) >= 1 + RegexMiddleMin + 1
  /\ Len(s) <= 1 + RegexMiddleMax + 1
  /\ s[1] \in LowerAlnum
  /\ \A i \in 2 .. Len(s) : s[i] \in LowerAlnum \cup {"-"}

\* ^[a-z0-9][a-z0-9-]{1,61}[a-z0-9]$
validSubdomainRegex(s) ==
  /\ Len(s) >= 1 + RegexMiddleMin + 1
  /\ Len(s) <= 1 + RegexMiddleMax + 1
  /\ s[1] \in LowerAlnum
  /\ s[Len(s)] \in LowerAlnum
  /\ \A i \in 2 .. (Len(s) - 1) : s[i] \in LowerAlnum \cup {"-"}

ValidateSubdomain(subdomain) ==
  LET s == ToLower(subdomain)
  IN  IF Len(s) < MinSubdomainLen THEN "ErrInvalidSubdomain"
      ELSE IF Len(s) > MaxSubdomainLen THEN "ErrInvalidSubdomain"
      ELSE IF ~validSubdomainRegex(s) THEN "ErrInvalidSubdomain"
      ELSE "nil"

\* ---------------------------------------------------------- sync.Map
\* A map is a set of records with a key field; the operations below are the
\* atomic sync.Map methods.  Nothing in the representation forces the keys
\* to be distinct: that is a property of the methods.
SessionEntry(sub, session, tunnelType, tcpPort, tcpListener) ==
  [key |-> sub, Session |-> session, TunnelType |-> tunnelType,
   TCPPort |-> tcpPort, TCPListener |-> tcpListener]

Loaded(m, k) == \E e \in m : e.key = k

Load(m, k) == CHOOSE e \in m : e.key = k

\* Store in place of LoadOrStore
LoadOrStore_Store(m, k, e) == [m |-> m \cup {e}, loaded |-> FALSE]

LoadOrStore(m, k, e) ==
  IF Loaded(m, k) THEN [m |-> m, loaded |-> TRUE]
  ELSE [m |-> m \cup {e}, loaded |-> FALSE]

\* Load in place of LoadAndDelete
LoadAndDelete_Load(m, k) ==
  IF Loaded(m, k)
  THEN [m |-> m, loaded |-> TRUE, value |-> Load(m, k)]
  ELSE [m |-> m, loaded |-> FALSE, value |-> SessionEntry(k, 0, "", 0, 0)]

\* the loaded flag ignored
LoadAndDelete_AlwaysLoaded(m, k) ==
  [m |-> {e \in m : e.key # k}, loaded |-> TRUE,
   value |-> IF Loaded(m, k) THEN Load(m, k) ELSE SessionEntry(k, 0, "", 0, 0)]

LoadAndDelete(m, k) ==
  IF Loaded(m, k)
  THEN [m |-> {e \in m : e.key # k}, loaded |-> TRUE, value |-> Load(m, k)]
  ELSE [m |-> m, loaded |-> FALSE, value |-> SessionEntry(k, 0, "", 0, 0)]

Delete(m, k) == {e \in m : e.key # k}

\* count.Add(1) where count.Add(-1) was meant
Add_One(c, delta) == c + 1

\* atomic.Int64.Add
Add(c, delta) == c + delta

\* --------------------------------------------------------------- state
VARIABLES
  sessions,    \* SessionRegistry.sessions: set of SessionEntry records
  count,       \* SessionRegistry.count (atomic.Int64)
  tcpPorts,    \* SessionRegistry.tcpPorts: set of [key |-> port, sub |-> id]
  tcpPortMu,   \* SessionRegistry.tcpPortMu: 0 or the goroutine holding it
  listeners,   \* net.Listener objects: "none", "open" or "closed"
  closed,      \* Session.closed (and ctx cancelled), per session object
  muxCloses,   \* times yamuxSession.Close / wsConn.Close ran, per session
  peerGone,    \* the agent's end of the transport has gone away
  pc,          \* position of each goroutine
  rpc,         \* where the registry method being run returns to
  call,        \* the registry method a caller invoked last
  arg,         \* the subdomain argument / query parameter
  typ,         \* tunnelType
  authz,       \* Authorization header of the handshake request
  port,        \* local tcpPort
  lst,         \* local tcpListener (0 is nil)
  res,         \* result of the last registry method
  ent,         \* entry returned by LoadAndDelete / Get
  scan,        \* loop variable of AllocateTCPPort
  status,      \* HTTP status the handshake was answered with (0: none yet)
  cpc,         \* position of the goroutine running CloseAll
  todo,        \* entries Range has still to visit
  visited,     \* keys Range has visited
  closeAlls,   \* completed CloseAll calls
  log,         \* calls made by the sequential driver, with their results
  wg,          \* Server.wg (sync.WaitGroup counter)
  tpc,         \* position of each tunnel's handleTCPListener goroutine
  closeMu,     \* Session.closeMu: 0 or the goroutine holding the write lock
  config,      \* Server.config: RoutingMode, BaseDomain, RateLimit
  req,         \* the ingress request being handled and handleRequest's locals
  RequestCount,\* SessionEntry.RequestCount, per entry (named by its session)
  RateLimiter, \* SessionEntry.RateLimiter, per entry: NoLimiter or a bucket
  streams,     \* streams opened on each session by the ingress router
  now,         \* time.Now(), in seconds since the hub started
  shutdown,    \* position of the goroutine running Server.Shutdown
  client,      \* the agent (internal/client): its goroutines and connections
  bridge,      \* one inbound TCP connection, bridged by the hub and the agent
  ws           \* a wsConn (pkg/transport) and the frames arriving on it

regVars == <<sessions, count, tcpPorts, tcpPortMu, listeners>>
sessVars == <<closed, muxCloses, peerGone>>
procVars == <<pc, rpc, call, arg, typ, authz, port, lst, res, ent, scan, status>>
closeVars == <<cpc, todo, visited, closeAlls>>
\* state of the parts of the program that the hub's goroutines never touch
ingressVars ==
  <<config, req, RequestCount, RateLimiter, streams, now, shutdown, client, bridge,
    ws>>
others == <<log, wg, tpc, closeMu, ingressVars>>
vars == <<regVars, sessVars, procVars, closeVars, others>>

NoEntry == SessionEntry(<<>>, 0, "", 0, 0)

\* --------------------------------------------------- registry methods
Return(p, r) ==
  /\ pc' = [pc EXCEPT ![p] = rpc[p]]
  /\ res' = [res EXCEPT ![p] = r]

\* registry.go 116-134: lower-case, validate, build the entry, LoadOrStore
RegisterWithOptions(p) ==
  /\ pc[p] = "RegisterWithOptions"
  /\ LET subdomain == ToLower(arg[p])
         entry == SessionEntry(subdomain, p, typ[p], port[p], lst[p])
         r == LoadOrStore(sessions, subdomain, entry)
     IN  IF ValidateSubdomain(subdomain) # "nil"
         THEN /\ Return(p, ValidateSubdomain(subdomain))
              /\ UNCHANGED sessions
         ELSE /\ sessions' = r.m
              /\ IF r.loaded
                 THEN Return(p, "ErrSubdomainTaken")
                 ELSE /\ pc' = [pc EXCEPT ![p] = "RegisterWithOptions_count"]
                      /\ UNCHANGED res
  /\ UNCHANGED <<count, tcpPorts, tcpPortMu, listeners, sessVars, rpc, call, arg,
                 typ, authz, port, lst, ent, scan, status, closeVars, others>>

\* registry.go 136-137
RegisterWithOptions_count(p) ==
  /\ pc[p] = "RegisterWithOptions_count"
  /\ count' = Add(count, 1)
  /\ Return(p, "nil")
  /\ UNCHANGED <<sessions, tcpPorts, tcpPortMu, listeners, sessVars, rpc, call, arg,
                 typ, authz, port, lst, ent, scan, status, closeVars, others>>

\* registry.go 141-143: lower-case, LoadAndDelete
Unregister(p) ==
  /\ pc[p] = "Unregister"
  /\ LET r == LoadAndDelete(sessions, ToLower(arg[p]))
     IN  /\ sessions' = r.m
         /\ IF r.loaded
            THEN /\ ent' = [ent EXCEPT ![p] = r.value]
                 /\ pc' = [pc EXCEPT ![p] = "Unregister_count"]
                 /\ res' = [res EXCEPT ![p] = "loaded"]
            ELSE /\ Return(p, "notloaded")
                 /\ UNCHANGED ent
  /\ UNCHANGED <<count, tcpPorts, tcpPortMu, listeners, sessVars, rpc, call, arg,
                 typ, authz, port, lst, scan, status, closeVars, others>>

\* where Unregister goes on after registry.go line 144 / 149
UnregisterAfterCount(e) ==
  IF e.TCPListener # 0 THEN "Unregister_close"
  ELSE IF e.TCPPort > 0 THEN "Unregister_release"
  ELSE "return"

Goto(p, label) ==
  pc' = [pc EXCEPT ![p] = IF label = "return" THEN rpc[p] ELSE label]

\* registry.go 144
Unregister_count(p) ==
  /\ pc[p] = "Unregister_count"
  /\ count' = Add(count, -1)
  /\ Goto(p, UnregisterAfterCount(ent[p]))
  /\ UNCHANGED <<sessions, tcpPorts, tcpPortMu, listeners, sessVars, rpc, call, arg,
                 typ, authz, port, lst, res, ent, scan, status, closeVars,
                 others>>

\* registry.go 147-149
Unregister_close(p) ==
  /\ pc[p] = "Unregister_close"
  /\ listeners' = [listeners EXCEPT ![ent[p].TCPListener] = "closed"]
  /\ Goto(p, IF ent[p].TCPPort > 0 THEN "Unregister_release" ELSE "return")
  /\ UNCHANGED <<sessions, count, tcpPorts, tcpPortMu, sessVars, rpc, call, arg,
                 typ, authz, port, lst, res, ent, scan, status, closeVars,
                 others>>

\* the port stays in the map
ReleaseTCPPort_Keep(m, tcpPort) == m

\* registry.go 83-86
ReleaseTCPPort(m, tcpPort) == Delete(m, tcpPort)

\* registry.go 150-152
Unregister_release(p) ==
  /\ pc[p] = "Unregister_release"
  /\ tcpPorts' = ReleaseTCPPort(tcpPorts, ent[p].TCPPort)
  /\ Goto(p, "return")
  /\ UNCHANGED <<sessions, count, tcpPortMu, listeners, sessVars, rpc, call, arg,
                 typ, authz, port, lst, res, ent, scan, status, closeVars,
                 others>>

\* registry.go 157-164
Get(p) ==
  /\ pc[p] = "Get"
  /\ LET subdomain == ToLower(arg[p])
     IN  IF Loaded(sessions, subdomain)
         THEN /\ ent' = [ent EXCEPT ![p] = Load(sessions, subdomain)]
              /\ Return(p, "nil")
         ELSE /\ ent' = [ent EXCEPT ![p] = NoEntry]
              /\ Return(p, "ErrSubdomainNotFound")
  /\ UNCHANGED <<regVars, sessVars, rpc, call, arg, typ, authz, port, lst, scan,
                 status, closeVars, others>>

\* registry.go 167-171
Exists(p) ==
  /\ pc[p] = "Exists"
  /\ Return(p, IF Loaded(sessions, ToLower(arg[p])) THEN "true" ELSE "false")
  /\ UNCHANGED <<regVars, sessVars, rpc, call, arg, typ, authz, port, lst, ent,
                 scan, status, closeVars, others>>

\* registry.go 71, 74: take the port mutex, start the scan
AllocateTCPPort(p) ==
  /\ pc[p] = "AllocateTCPPort"
  /\ tcpPortMu = 0
  /\ tcpPortMu' = p
  /\ scan' = [scan EXCEPT ![p] = tcpPortStart]
  /\ pc' = [pc EXCEPT ![p] = "AllocateTCPPort_scan"]
  /\ UNCHANGED <<sessions, count, tcpPorts, listeners, sessVars, rpc, call, arg,
                 typ, authz, port, lst, res, ent, status, closeVars, others>>

\* every port taken to be free
portAvailable_Always(m, tcpPort) == TRUE

\* registry.go 75: the port is free when the port map has no entry for it
portAvailable(m, tcpPort) == ~Loaded(m, tcpPort)

\* the scan stepping over a port
nextPort_Skip(tcpPort) == tcpPort + 2

\* registry.go 74: port++
nextPort(tcpPort) == tcpPort + 1

\* registry.go 74-80: one iteration of the scan, or its end
AllocateTCPPort_scan(p) ==
  /\ pc[p] = "AllocateTCPPort_scan"
  /\ IF scan[p] > tcpPortEnd
     THEN /\ tcpPortMu' = 0
          /\ port' = [port EXCEPT ![p] = 0]
          /\ Return(p, "no available TCP ports")
          /\ UNCHANGED <<tcpPorts, scan>>
     ELSE IF portAvailable(tcpPorts, scan[p])
     THEN /\ tcpPorts' = tcpPorts \cup {[key |-> scan[p], sub |-> arg[p]]}
          /\ tcpPortMu' = 0
          /\ port' = [port EXCEPT ![p] = scan[p]]
          /\ Return(p, "nil")
          /\ UNCHANGED scan
     ELSE /\ scan' = [scan EXCEPT ![p] = nextPort(scan[p])]
          /\ UNCHANGED <<tcpPorts, tcpPortMu, port, pc, res>>
  /\ UNCHANGED <<sessions, count, listeners, sessVars, rpc, call, arg, typ, authz,
                 lst, ent, status, closeVars, others>>

\* registry.go 84-86, called with the goroutine's own tcpPort
ReleaseTCPPort_call(p) ==
  /\ pc[p] = "ReleaseTCPPort"
  /\ tcpPorts' = ReleaseTCPPort(tcpPorts, port[p])
  /\ Return(p, "nil")
  /\ UNCHANGED <<sessions, count, tcpPortMu, listeners, sessVars, rpc, call, arg,
                 typ, authz, port, lst, ent, scan, status, closeVars, others>>

\* ---------------------------------------------------------- identifiers
IdAbc == <<"a", "b", "c">>
IdABC == <<"A", "B", "C">>
IdaBc == <<"a", "B", "c">>
IdB0 == <<"b", "-", "0">>
IdAb == <<"a", "b">>
Rep(c, n) == [i \in 1 .. n |-> c]

\* all sequences over alphabet of length 0 .. n
RECURSIVE SeqsUpTo(_, _)
SeqsUpTo(alphabet, n) ==
  IF n = 0 THEN {<<>>}
  ELSE LET shorter == SeqsUpTo(alphabet, n - 1)
       IN  shorter \cup {Append(s, c) : s \in shorter, c \in alphabet}

\* --------------------------------------------------------- initial states
\* NewSessionRegistry (registry.go 56-67)
NewSessionRegistry ==
  /\ sessions = {}
  /\ count = 0
  /\ tcpPorts = {}
  /\ tcpPortMu = 0
  /\ listeners = [o \in Objs |-> "none"]

\* a registry that holds the TCP tunnel of an earlier, completed handshake
\* (server.go 201-269): entry, port reservation and open listener
TCPTunnel ==
  SessionEntry(IdB0, PreExisting, "tcp", tcpPortStart, PreExisting)

RegistryWithTCPTunnel ==
  /\ sessions = {TCPTunnel}
  /\ count = 1
  /\ tcpPorts = {[key |-> tcpPortStart, sub |-> IdB0]}
  /\ tcpPortMu = 0
  /\ listeners = [o \in Objs |-> IF o = PreExisting THEN "open" ELSE "none"]

\* server.go 37-72 (ConfigFromEnv), registry.go 48-49: path routing, no rate
\* limit, no ingress request yet, every counter at zero
NoLimiter == [limit |-> 0, burst |-> 0, tokens |-> 0, last |-> 0]
NoRequest ==
  [at |-> "idle", Path |-> <<>>, Cookie |-> <<>>, Referer |-> <<>>,
   Host |-> <<>>, tunnelID |-> <<>>, fromPath |-> FALSE, originalPath |-> <<>>,
   setCookie |-> <<>>, entry |-> 0, status |-> 0, served |-> 0,
   Upgrade |-> "", via |-> ""]

\* client.go 74-95 (New): an agent that has not connected
\* streams the agent accepts, one worker goroutine each
NumWorkers == 2
Workers == 1 .. NumWorkers

\* the connections of the agent's workers: worker w reads stream w and dials
\* the local connection NumWorkers + w
StreamOf(w) == w
LocalConnOf(w) == NumWorkers + w
ClientConns == 1 .. (2 * NumWorkers)

\* a worker that has not been started
NoWorker ==
  [at |-> "off", data |-> FALSE, answered |-> FALSE, dialed |-> FALSE,
   Authorization |-> <<>>, Host |-> <<>>,
   out |-> [Host |-> <<>>, XForwardedHost |-> <<>>, XForwardedProto |-> ""],
   sent |-> <<>>, Body |-> <<>>, stream |-> <<>>, buffered |-> <<>>,
   wrote |-> <<>>]

\* client.go 30-37, 81-83: the agent's configuration; LocalHost defaults to
\* 127.0.0.1
LocalHost == <<"1", "2", "7", ".", "0", ".", "0", ".", "1">>
NoClientConfig ==
  [BasicAuth |-> <<>>, RewriteHost |-> FALSE, LocalHost |-> LocalHost,
   LocalPort |-> 3]

NoClient ==
  [at |-> "off", delay |-> 0, dials |-> 0, waits |-> <<>>, resp |-> 0,
   err |-> "", ctxDone |-> FALSE,
   closed |-> FALSE, broken |-> FALSE, cancelled |-> FALSE, wg |-> 0,
   heartbeat |-> "off", close |-> "off",
   worker |-> [w \in Workers |-> NoWorker],
   conns |-> [c \in ClientConns |-> "none"],
   activeConns |-> {}, config |-> NoClientConfig, run |-> ""]

\* the limiter always admits
NewLimiter_Unlimited(RateLimit) == NoLimiter

\* server.go 252-258: no limiter for a limit of 0, else rate.NewLimiter with
\* RateLimit / 60 tokens per second and a burst of RateLimit.  Tokens are
\* counted in sixtieths, so that a second adds RateLimit of them and a
\* request takes 60; the bucket starts full.
NewLimiter(RateLimit) ==
  IF RateLimit > 0
  THEN [limit |-> RateLimit, burst |-> RateLimit, tokens |-> 60 * RateLimit,
        last |-> 0]
  ELSE NoLimiter

\* server.go 343, client.go 491: no inbound connection yet, no goroutine
NoCopy == [up |-> "off", down |-> "off"]
NoBridge ==
  [accept |-> "off", hub |-> "off", agent |-> "off", hubCopy |-> NoCopy,
   agentCopy |-> NoCopy, conn |-> "none", hubStream |-> "none",
   agentStream |-> "none", localConn |-> "none", cancelled |-> FALSE,
   session |-> "open", listener |-> "open", entry |-> TRUE,
   RateLimiter |-> NoLimiter, RequestCount |-> 0, accepted |-> 0,
   CloseAll |-> "off", log |-> <<>>]

\* transport.go 46-52: the adapter right after WrapWebSocket, reader nil;
\* no frame has arrived, Read has not been called
WrapWebSocket ==
  [frames |-> <<>>, reader |-> "nil", message |-> <<>>, payloads |-> <<>>,
   read |-> <<>>, n |-> 0, err |-> "nil", len |-> 0, calls |-> 0,
   arrived |-> 0]

\* the ingress side of a hub configured with c, before its first request
Serving(c) ==
  /\ config = c
  /\ req = NoRequest
  /\ RequestCount = [o \in Objs |-> 0]
  /\ RateLimiter = [o \in Objs |-> NewLimiter(c.RateLimit)]
  /\ streams = [o \in Objs |-> 0]
  /\ now = 0
  /\ shutdown = "off"
  /\ client = NoClient
  /\ bridge = NoBridge
  /\ ws = WrapWebSocket

NoRequests ==
  Serving([RoutingMode |-> "path", BaseDomain |-> <<>>, RateLimit |-> 0])

\* no session has been closed, no goroutine has run anything yet
InitRest ==
  /\ bridge = NoBridge
  /\ ws = WrapWebSocket
  /\ closed = [o \in Objs |-> FALSE]
  /\ muxCloses = [o \in Objs |-> 0]
  /\ peerGone = [o \in Objs |-> FALSE]
  /\ rpc = [p \in Procs |-> "done"]
  /\ typ = [p \in Procs |-> "http"]
  /\ authz = [p \in Procs |-> <<>>]
  /\ port = [p \in Procs |-> 0]
  /\ lst = [p \in Procs |-> 0]
  /\ res = [p \in Procs |-> ""]
  /\ ent = [p \in Procs |-> NoEntry]
  /\ scan = [p \in Procs |-> 0]
  /\ status = [p \in Procs |-> 0]
  /\ cpc = [at |-> "off", entry |-> NoEntry]
  /\ todo = {}
  /\ visited = {}
  /\ closeAlls = 0
  /\ log = <<>>
  /\ wg = 0
  /\ tpc = [p \in Procs |-> "off"]
  /\ closeMu = [o \in Objs |-> 0]

\* ------------------------------------------------ vocabulary of the claims
\* Letter case as the specification speaks of it: two identifiers are the
\* same tenant-id when they differ only in the case of their letters.
CasePairs == {<<"a", "A">>, <<"b", "B">>, <<"c", "C">>}
SameLetter(x, y) == x = y \/ <<x, y>> \in CasePairs \/ <<y, x>> \in CasePairs
SameId(a, b) ==
  /\ Len(a) = Len(b)
  /\ \A i \in 1 .. Len(a) : SameLetter(a[i], b[i])
LowerCased(s) ==
  [i \in 1 .. Len(s) |->
     IF \E pr \in CasePairs : pr[2] = s[i]
     THEN (CHOOSE pr \in CasePairs : pr[2] = s[i])[1]
     ELSE s[i]]
\* the tenant-id rule: 3 to 63 characters, lowercase alphanumerics and
\* hyphens, not starting or ending with a hyphen
TenantRule(s) ==
  /\ Len(s) >= 3
  /\ Len(s) <= 63
  /\ \A i \in 1 .. Len(s) : s[i] \in {"a", "b", "c", "0", "-"}
  /\ s[1] # "-"
  /\ s[Len(s)] # "-"
Registered(a) == \E e \in sessions : SameId(e.key, a)
RegisterReturned(p) == call[p] = "RegisterWithOptions" /\ pc[p] = "done"
RegisterSucceeded(p) ==
  /\ call[p] = "RegisterWithOptions"
  /\ \/ pc[p] = "RegisterWithOptions_count"
     \/ pc[p] = "done" /\ res[p] = "nil"
UnregisterLoaded(a) ==
  \E p \in Procs :
    call[p] = "Unregister" /\ SameId(arg[p], a) /\ res[p] = "loaded"

\* ------------------------------------------ sequential driver (the tests)
\* registry_test.go: one goroutine calls registry methods one after another
\* and reads Count() after each call.
SeqIds == {IdAbc, IdABC, IdaBc, IdB0, IdAb}
SeqMethods == {"RegisterWithOptions", "Unregister", "Get", "Exists"}

SeqInit ==
  /\ NewSessionRegistry
  /\ InitRest
  /\ NoRequests
  /\ pc = [p \in Procs |-> IF p = 1 THEN "idle" ELSE "off"]
  /\ call = [p \in Procs |-> ""]
  /\ arg = [p \in Procs |-> <<>>]

SeqCall(p) ==
  /\ pc[p] = "idle"
  /\ Len(log) < MaxCalls
  /\ \E m \in SeqMethods, a \in SeqIds :
       /\ pc' = [pc EXCEPT ![p] = m]
       /\ call' = [call EXCEPT ![p] = m]
       /\ arg' = [arg EXCEPT ![p] = a]
       /\ rpc' = [rpc EXCEPT ![p] = "ret"]
  /\ UNCHANGED <<regVars, sessVars, typ, authz, port, lst, res, ent, scan,
                 status, closeVars, others>>

SeqReturn(p) ==
  /\ pc[p] = "ret"
  /\ log' = Append(log, [call |-> call[p], arg |-> arg[p], res |-> res[p],
                         Count |-> count])
  /\ pc' = [pc EXCEPT ![p] = "idle"]
  /\ UNCHANGED <<regVars, sessVars, rpc, call, arg, typ, authz, port, lst,
                 res, ent, scan, status, closeVars, wg, tpc, closeMu, ingressVars>>

SeqNext ==
  \E p \in Procs :
    \/ SeqCall(p)
    \/ SeqReturn(p)
    \/ RegisterWithOptions(p)
    \/ RegisterWithOptions_count(p)
    \/ Unregister(p)
    \/ Unregister_count(p)
    \/ Get(p)
    \/ Exists(p)

SpecSeq == SeqInit /\ [][SeqNext]_vars

\* C6: registry keys are case-folded.  In the driver's log: after a Register
\* of an id succeeded and until an Unregister of some casing of it, every Get
\* and Exists of any casing of the id succeeds and every Register of any
\* casing returns ErrSubdomainTaken; an Unregister of any casing of it lowers
\* Count() by one and leaves no entry for the id.
C6_CaseFolding ==
  /\ \A i \in 1 .. Len(log) :
       (log[i].call = "RegisterWithOptions" /\ log[i].res = "nil") =>
         \A j \in (i + 1) .. Len(log) :
           ( /\ SameId(log[j].arg, log[i].arg)
             /\ \A k \in (i + 1) .. (j - 1) :
                  ~(log[k].call = "Unregister"
                      /\ SameId(log[k].arg, log[i].arg)) ) =>
             CASE log[j].call = "Get" -> log[j].res = "nil"
               [] log[j].call = "Exists" -> log[j].res = "true"
               [] log[j].call = "RegisterWithOptions" ->
                    log[j].res = "ErrSubdomainTaken"
               [] log[j].call = "Unregister" ->
                    /\ log[j].res = "loaded"
                    /\ log[j].Count = log[j - 1].Count - 1
  /\ (Len(log) > 0 /\ log[Len(log)].call = "Unregister" /\ pc[1] = "idle") =>
       ~Registered(log[Len(log)].arg)

C6_Witness ==
  /\ Len(log) = 3
  /\ log[1] = [call |-> "RegisterWithOptions", arg |-> IdABC, res |-> "nil",
               Count |-> 1]
  /\ log[2].call = "Get" /\ log[2].arg = IdAbc
  /\ log[3].call = "Unregister" /\ log[3].arg = IdaBc
  /\ pc[1] = "idle"

IsCall(l, m, a) == l.call = m /\ l.arg = a

\* C7: on a new registry, Register(T), Unregister(T), Register(T) with a
\* valid T: both Register calls return nil, and Count() read after the three
\* calls is 1, 0, 1.
C7_RegisterUnregisterRegister ==
  \A T \in SeqIds :
    TenantRule(LowerCased(T)) =>
      /\ (Len(log) >= 1 /\ IsCall(log[1], "RegisterWithOptions", T)) =>
           (log[1].res = "nil" /\ log[1].Count = 1)
      /\ ( /\ Len(log) >= 2
           /\ IsCall(log[1], "RegisterWithOptions", T)
           /\ IsCall(log[2], "Unregister", T) ) =>
           log[2].Count = 0
      /\ ( /\ Len(log) >= 3
           /\ IsCall(log[1], "RegisterWithOptions", T)
           /\ IsCall(log[2], "Unregister", T)
           /\ IsCall(log[3], "RegisterWithOptions", T) ) =>
           (log[3].res = "nil" /\ log[3].Count = 1)

C7_Witness ==
  /\ Len(log) = 3
  /\ IsCall(log[1], "RegisterWithOptions", IdB0)
  /\ IsCall(log[2], "Unregister", IdB0)
  /\ IsCall(log[3], "RegisterWithOptions", IdB0)
  /\ log[3].Count = 1

\* ------------------------------------------- concurrent registry callers
\* registry_test.go 156-176 (TestSessionRegistry_ConcurrentAccess): goroutines
\* call registry methods concurrently, one call each.  The registry is new,
\* or already holds the TCP tunnel of an earlier handshake.
RegIds == {IdAbc, IdABC, IdB0}
RegMethods == {"RegisterWithOptions", "Unregister", "Exists"}

RegInit ==
  /\ NewSessionRegistry \/ RegistryWithTCPTunnel
  /\ InitRest
  /\ NoRequests
  /\ pc = [p \in Procs |-> "idle"]
  /\ call = [p \in Procs |-> ""]
  /\ arg = [p \in Procs |-> <<>>]

RegCall(p) ==
  /\ pc[p] = "idle"
  /\ \E m \in RegMethods, a \in RegIds :
       /\ pc' = [pc EXCEPT ![p] = m]
       /\ call' = [call EXCEPT ![p] = m]
       /\ arg' = [arg EXCEPT ![p] = a]
  /\ UNCHANGED <<regVars, sessVars, rpc, typ, authz, port, lst, res, ent,
                 scan, status, closeVars, others>>

RegNext ==
  \E p \in Procs :
    \/ RegCall(p)
    \/ RegisterWithOptions(p)
    \/ RegisterWithOptions_count(p)
    \/ Unregister(p)
    \/ Unregister_count(p)
    \/ Unregister_close(p)
    \/ Unregister_release(p)
    \/ Exists(p)

SpecReg == RegInit /\ [][RegNext]_vars

\* C1: tenant uniqueness.  The registry never holds two entries with the same
\* tenant-id; and among the Register calls for one valid id that was absent
\* and that no Unregister has removed meanwhile, at most one has succeeded,
\* every call that has returned got nil or ErrSubdomainTaken, and as soon as
\* one of them has returned exactly one has succeeded.
TenantUnique == \A e1, e2 \in sessions : e1.key = e2.key => e1 = e2

C1_TenantUniqueness ==
  /\ TenantUnique
  /\ \A a \in RegIds :
       ( /\ TenantRule(LowerCased(a))
         /\ ~UnregisterLoaded(a)
         /\ ~\E e \in sessions : SameId(e.key, a) /\ e.Session = PreExisting )
       =>
       LET callers == {p \in Procs : call[p] = "RegisterWithOptions"
                                      /\ SameId(arg[p], a)}
           winners == {p \in callers : RegisterSucceeded(p)}
       IN  /\ Cardinality(winners) <= 1
           /\ \A p \in callers :
                pc[p] = "done" =>
                  /\ res[p] \in {"nil", "ErrSubdomainTaken"}
                  /\ Cardinality(winners) = 1
           /\ \A w \in winners :
                \E e \in sessions : SameId(e.key, a) /\ e.Session = w

C1_Witness ==
  /\ \A p \in Procs : RegisterReturned(p) /\ SameId(arg[p], IdAbc)
  /\ \E p, q \in Procs : arg[p] # arg[q]
  /\ Cardinality({p \in Procs : res[p] = "nil"}) = 1
  /\ Cardinality({p \in Procs : res[p] = "ErrSubdomainTaken"}) = NumProcs - 1

\* C5: whenever no Register or Unregister call is in progress, Count() is
\* the number of entries in the registry.
Quiescent ==
  \A p \in Procs :
    pc[p] \notin {"RegisterWithOptions", "RegisterWithOptions_count",
                  "Unregister", "Unregister_count", "Unregister_close",
                  "Unregister_release"}

C5_CountAtQuiescence == Quiescent => count = Cardinality(sessions)

C5_Witness ==
  /\ Quiescent
  /\ \E p \in Procs : RegisterReturned(p) /\ res[p] = "nil"
  /\ \E p \in Procs : call[p] = "Unregister" /\ pc[p] = "done"
                      /\ res[p] = "loaded"
  /\ count = 1

\* C8: an Unregister of an id that is not in the registry is a single step
\* that returns at once and leaves the entries, Count(), the port map and
\* every listener as they were.
C8_UnregisterAbsentIsNoOp ==
  [][\A p \in Procs :
       (pc[p] = "Unregister" /\ pc'[p] # "Unregister" /\ ~Registered(arg[p]))
         => /\ pc'[p] = rpc[p]
            /\ sessions' = sessions
            /\ count' = count
            /\ tcpPorts' = tcpPorts
            /\ listeners' = listeners]_vars

C8_Witness ==
  \E p \in Procs :
    /\ call[p] = "Unregister" /\ pc[p] = "done" /\ res[p] = "notloaded"
    /\ sessions = {TCPTunnel}
    /\ tcpPorts # {}
    /\ listeners[PreExisting] = "open"
    /\ count = 1

\* --------------------------------------------- one Register call, any id
\* registry_test.go 8-43, 178-195: Register is called once with an identifier
\* drawn from every short string over a small alphabet and from strings
\* around the length limit, on a new registry or one that holds "aaa".
ValAlphabet == {"a", "0", "-", "A", "_"}
ValIds ==
  SeqsUpTo(ValAlphabet, MaxIdLen)
    \cup {Rep("a", n) : n \in (MaxSubdomainLen - 1) .. (MaxSubdomainLen + 1)}
    \cup {Append(Rep("a", MaxSubdomainLen - 1), c) : c \in {"-", "A", "_"}}

ValInit ==
  /\ \/ NewSessionRegistry
     \/ /\ sessions = {SessionEntry(Rep("a", MinSubdomainLen), PreExisting,
                                    "http", 0, 0)}
        /\ count = 1
        /\ tcpPorts = {}
        /\ tcpPortMu = 0
        /\ listeners = [o \in Objs |-> "none"]
  /\ InitRest
  /\ NoRequests
  /\ pc = [p \in Procs |-> IF p = 1 THEN "RegisterWithOptions" ELSE "off"]
  /\ call = [p \in Procs |-> IF p = 1 THEN "RegisterWithOptions" ELSE ""]
  /\ \E a \in ValIds : arg = [p \in Procs |-> IF p = 1 THEN a ELSE <<>>]

ValNext ==
  \E p \in Procs :
    \/ RegisterWithOptions(p)
    \/ RegisterWithOptions_count(p)

SpecVal == ValInit /\ [][ValNext]_vars

\* What C10 says of one Register call, for a given reading of "the identifier
\* passes the rule": a failing identifier returns ErrInvalidSubdomain and
\* changes nothing; a passing one whose id is present returns
\* ErrSubdomainTaken and changes nothing; a passing one whose id is absent
\* stores its entry, then raises Count() by one and returns nil.
RegisterAsClaimed(p, passes) ==
  /\ (pc[p] = "RegisterWithOptions" /\ pc'[p] # "RegisterWithOptions") =>
       IF ~passes
       THEN /\ pc'[p] = rpc[p] /\ res'[p] = "ErrInvalidSubdomain"
            /\ UNCHANGED regVars
       ELSE IF Registered(arg[p])
       THEN /\ pc'[p] = rpc[p] /\ res'[p] = "ErrSubdomainTaken"
            /\ UNCHANGED regVars
       ELSE /\ pc'[p] = "RegisterWithOptions_count"
            /\ \E e \in sessions' :
                 /\ SameId(e.key, arg[p]) /\ e.Session = p
                 /\ sessions' = sessions \cup {e}
            /\ UNCHANGED <<count, tcpPorts, listeners>>
  /\ (pc[p] = "RegisterWithOptions_count"
        /\ pc'[p] # "RegisterWithOptions_count") =>
       /\ pc'[p] = rpc[p] /\ res'[p] = "nil"
       /\ count' = count + 1
       /\ UNCHANGED <<sessions, tcpPorts, listeners>>

\* C10 as stated: the rule is applied to the identifier as given.
C10_AsStated ==
  [][\A p \in Procs : RegisterAsClaimed(p, TenantRule(arg[p]))]_vars

\* C10, amended: the rule is applied to the lower-cased identifier.
C10_ValidationOfLowerCased ==
  [][\A p \in Procs : RegisterAsClaimed(p, TenantRule(LowerCased(arg[p])))]_vars

C10_Witness ==
  /\ RegisterReturned(1)
  /\ res[1] = "nil"
  /\ arg[1] = <<"A", "-", "0", "A">>
  /\ count = 2

\* ------------------------------------------------------ authentication
\* auth.go 20, and the token the hub was started with
BearerPrefix == <<"B", "e", "a", "r", "e", "r", " ">>
ServerToken == <<"t", "k">>

HasPrefix(s, prefix) ==
  /\ Len(s) >= Len(prefix)
  /\ SubSeq(s, 1, Len(prefix)) = prefix

TrimPrefix(s, prefix) ==
  IF HasPrefix(s, prefix) THEN SubSeq(s, Len(prefix) + 1, Len(s)) ELSE s

\* the provided token compared with the start of the secret only
Validate_Prefix(token, providedToken) ==
  IF providedToken = <<>> THEN "ErrMissingToken"
  ELSE IF ~HasPrefix(token, providedToken) THEN "ErrInvalidToken"
  ELSE "nil"

\* auth.go 58-66
Validate(token, providedToken) ==
  IF providedToken = <<>> THEN "ErrMissingToken"
  ELSE IF token # providedToken THEN "ErrInvalidToken"
  ELSE "nil"

\* the handshake not authenticated at all
ValidateRequest_AcceptAll(authHeader) == "nil"

\* auth.go 70-82
ValidateRequest(authHeader) ==
  IF authHeader = <<>> THEN "ErrMissingToken"
  ELSE IF ~HasPrefix(authHeader, BearerPrefix) THEN "ErrInvalidToken"
  ELSE Validate(ServerToken, TrimPrefix(authHeader, BearerPrefix))

\* ------------------------------------------------------- Session.Close
\* Close without the check of the closed flag
Close_NoGuard(isClosed, closes) == [closed |-> TRUE, muxCloses |-> closes + 1]

\* Close that closes what is open but does not set the closed flag
Close_NoFlag(isClosed, closes) ==
  IF isClosed THEN [closed |-> TRUE, muxCloses |-> closes]
  ELSE [closed |-> FALSE, muxCloses |-> closes + 1]

\* transport.go 209-231, under closeMu: a closed session is left alone,
\* otherwise the flag is set, the context cancelled and the multiplexer and
\* the socket are closed
Close(isClosed, closes) ==
  IF isClosed THEN [closed |-> TRUE, muxCloses |-> closes]
  ELSE [closed |-> TRUE, muxCloses |-> closes + 1]

SessionClose(s) ==
  LET r == Close(closed[s], muxCloses[s])
  IN  /\ closed' = [closed EXCEPT ![s] = r.closed]
      /\ muxCloses' = [muxCloses EXCEPT ![s] = r.muxCloses]

\* ------------------------------------------------- the /_connect handshake
\* calling a registry method from the handler
Invoke(p, method, ret) ==
  /\ pc' = [pc EXCEPT ![p] = method]
  /\ rpc' = [rpc EXCEPT ![p] = ret]
  /\ call' = [call EXCEPT ![p] = method]

\* http.Error(w, ..., code); return
Respond(p, code) ==
  /\ status' = [status EXCEPT ![p] = code]
  /\ pc' = [pc EXCEPT ![p] = "done"]

\* server.go 160-199: the checks made on the request alone, then Exists
handleConnect(p) ==
  /\ pc[p] = "handleConnect"
  /\ LET subdomain == ToLower(arg[p])
         tunnelType == IF typ[p] = "" THEN "http" ELSE typ[p]
     IN  IF ValidateRequest(authz[p]) # "nil"
         THEN /\ Respond(p, StatusUnauthorized)
              /\ UNCHANGED <<rpc, call, arg, typ>>
         ELSE IF arg[p] = <<>>
         THEN /\ Respond(p, StatusBadRequest)
              /\ UNCHANGED <<rpc, call, arg, typ>>
         ELSE IF tunnelType \notin {"http", "tcp"}
         THEN /\ Respond(p, StatusBadRequest)
              /\ arg' = [arg EXCEPT ![p] = subdomain]
              /\ typ' = [typ EXCEPT ![p] = tunnelType]
              /\ UNCHANGED <<rpc, call>>
         ELSE IF ValidateSubdomain(subdomain) # "nil"
         THEN /\ Respond(p, StatusBadRequest)
              /\ arg' = [arg EXCEPT ![p] = subdomain]
              /\ typ' = [typ EXCEPT ![p] = tunnelType]
              /\ UNCHANGED <<rpc, call>>
         ELSE /\ Invoke(p, "Exists", "handleConnect_exists")
              /\ arg' = [arg EXCEPT ![p] = subdomain]
              /\ typ' = [typ EXCEPT ![p] = tunnelType]
              /\ UNCHANGED status
  /\ UNCHANGED <<regVars, sessVars, authz, port, lst, res, ent, scan, closeVars,
                 others>>

\* server.go 196-211: 409 when the id exists; a TCP tunnel allocates a port
handleConnect_exists(p) ==
  /\ pc[p] = "handleConnect_exists"
  /\ IF res[p] = "true"
     THEN /\ Respond(p, StatusConflict)
          /\ UNCHANGED <<rpc, call>>
     ELSE IF typ[p] = "tcp"
     THEN /\ Invoke(p, "AllocateTCPPort", "handleConnect_alloc")
          /\ UNCHANGED status
     ELSE /\ pc' = [pc EXCEPT ![p] = "handleConnect_upgrade"]
          /\ UNCHANGED <<rpc, call, status>>
  /\ UNCHANGED <<regVars, sessVars, arg, typ, authz, port, lst, res, ent, scan,
                 closeVars, others>>

\* the operating system refuses a second listener on a port in use
portInUse(tcpPort) ==
  \E o \in Procs : listeners[o] = "open" /\ port[o] = tcpPort

\* server.go 207-220: 503 without a port; net.Listen on the port succeeds
\* or fails (then the port is released)
handleConnect_alloc(p) ==
  /\ pc[p] = "handleConnect_alloc"
  /\ \/ /\ res[p] # "nil"
        /\ Respond(p, StatusServiceUnavailable)
        /\ UNCHANGED <<listeners, lst, rpc, call>>
     \/ /\ res[p] = "nil"
        /\ ~portInUse(port[p])
        /\ listeners' = [listeners EXCEPT ![p] = "open"]
        /\ lst' = [lst EXCEPT ![p] = p]
        /\ pc' = [pc EXCEPT ![p] = "handleConnect_upgrade"]
        /\ UNCHANGED <<rpc, call, status>>
     \/ /\ res[p] = "nil"
        /\ Invoke(p, "ReleaseTCPPort", "handleConnect_listenFailed")
        /\ UNCHANGED <<listeners, lst, status>>
  /\ UNCHANGED <<sessions, count, tcpPorts, tcpPortMu, sessVars, arg, typ, authz,
                 port, res, ent, scan, closeVars, others>>

\* server.go 218-219
handleConnect_listenFailed(p) ==
  /\ pc[p] = "handleConnect_listenFailed"
  /\ Respond(p, StatusInternalServerError)
  /\ UNCHANGED <<regVars, sessVars, rpc, call, arg, typ, authz, port, lst, res,
                 ent, scan, closeVars, others>>

\* where a handler that gives up goes: server.go 233-236, 245-248, 264-267
handleConnect_cleanup(p) ==
  IF lst[p] # 0 THEN "handleConnect_closeListener" ELSE "done"

\* server.go 230-261: the WebSocket upgrade answers 101, or fails and answers
\* with an error of its own; on success the session is built and
\* RegisterWithOptions is called.  yamux.Server fails only on a configuration
\* that VerifyConfig rejects, and YamuxConfig (transport.go 134-144) is fixed
\* and valid, so NewServerSession succeeds.
handleConnect_upgrade(p) ==
  /\ pc[p] = "handleConnect_upgrade"
  /\ \/ /\ status' = [status EXCEPT ![p] = StatusSwitchingProtocols]
        /\ Invoke(p, "RegisterWithOptions", "handleConnect_registered")
     \/ /\ status' = [status EXCEPT ![p] = StatusBadRequest]
        /\ pc' = [pc EXCEPT ![p] = handleConnect_cleanup(p)]
        /\ UNCHANGED <<rpc, call>>
  /\ UNCHANGED <<regVars, sessVars, arg, typ, authz, port, lst, res, ent, scan,
                 closeVars, others>>

\* server.go 234, 246, 265: tcpListener.Close(), then ReleaseTCPPort
handleConnect_closeListener(p) ==
  /\ pc[p] = "handleConnect_closeListener"
  /\ listeners' = [listeners EXCEPT ![lst[p]] = "closed"]
  /\ Invoke(p, "ReleaseTCPPort", "done")
  /\ UNCHANGED <<sessions, count, tcpPorts, tcpPortMu, sessVars, arg, typ, authz,
                 port, lst, res, ent, scan, status, closeVars, others>>

\* server.go 261-284: a failed registration closes the session; a successful
\* one starts the lifecycle goroutine (wg.Add(1); go func)
handleConnect_registered(p) ==
  /\ pc[p] = "handleConnect_registered"
  /\ IF res[p] # "nil"
     THEN /\ pc' = [pc EXCEPT ![p] = "handleConnect_closeSession"]
          /\ UNCHANGED wg
     ELSE /\ pc' = [pc EXCEPT ![p] = "lifecycle"]
          /\ wg' = wg + 1
  /\ UNCHANGED <<regVars, sessVars, rpc, call, arg, typ, authz, port, lst, res,
                 ent, scan, status, closeVars, ingressVars, log, tpc,
                 closeMu>>

\* the failed handshake unregisters its tenant-id
handleConnect_closeSession_Unregister(p) ==
  /\ pc[p] = "handleConnect_closeSession"
  /\ SessionClose(p)
  /\ Invoke(p, "Unregister", handleConnect_cleanup(p))
  /\ UNCHANGED <<regVars, peerGone, arg, typ, authz, port, lst, res,
                 ent, scan, status, closeVars, others>>

\* server.go 263
handleConnect_closeSession(p) ==
  /\ pc[p] = "handleConnect_closeSession"
  /\ SessionClose(p)
  /\ pc' = [pc EXCEPT ![p] = handleConnect_cleanup(p)]
  /\ UNCHANGED <<regVars, peerGone, rpc, call, arg, typ, authz, port, lst, res,
                 ent, scan, status, closeVars, others>>

\* ------------------------------------------- the session lifecycle goroutine
\* server.go 285-297: a TCP tunnel starts its accept loop
lifecycle(p) ==
  /\ pc[p] = "lifecycle"
  /\ IF typ[p] = "tcp" /\ lst[p] # 0
     THEN /\ wg' = wg + 1
          /\ tpc' = [tpc EXCEPT ![p] = "handleTCPListener"]
     ELSE UNCHANGED <<wg, tpc>>
  /\ pc' = [pc EXCEPT ![p] = "lifecycle_wait"]
  /\ UNCHANGED <<regVars, sessVars, rpc, call, arg, typ, authz, port, lst, res,
                 ent, scan, status, closeVars, ingressVars, log, closeMu>>

\* server.go 300, 288, 287: the goroutine waits for the session's context,
\* which Session.Close alone cancels (transport.go 154, 217); then the
\* deferred session.Close() runs and the deferred Unregister is called
lifecycle_wait(p) ==
  /\ pc[p] = "lifecycle_wait"
  /\ closed[p]
  /\ SessionClose(p)
  /\ Invoke(p, "Unregister", "lifecycle_done")
  /\ UNCHANGED <<regVars, peerGone, arg, typ, authz, port, lst, res, ent, scan,
                 status, closeVars, others>>

\* server.go 286: wg.Done()
lifecycle_done(p) ==
  /\ pc[p] = "lifecycle_done"
  /\ wg' = wg - 1
  /\ pc' = [pc EXCEPT ![p] = "done"]
  /\ UNCHANGED <<regVars, sessVars, rpc, call, arg, typ, authz, port, lst, res,
                 ent, scan, status, closeVars, ingressVars, log, tpc,
                 closeMu>>

\* server.go 306-320, 294: Accept fails once the listener is closed; the loop
\* goes on until the session's context is done, then the deferred
\* listener.Close() and wg.Done() run
handleTCPListener(p) ==
  /\ tpc[p] = "handleTCPListener"
  /\ listeners[lst[p]] = "closed"
  /\ closed[p]
  /\ listeners' = [listeners EXCEPT ![lst[p]] = "closed"]
  /\ wg' = wg - 1
  /\ tpc' = [tpc EXCEPT ![p] = "done"]
  /\ UNCHANGED <<sessions, count, tcpPorts, tcpPortMu, sessVars, procVars,
                 closeVars, ingressVars, log, closeMu>>

\* the agent's end of a registered session goes away (process killed, network
\* lost): the hub's reads fail, nothing on the hub calls Session.Close
AgentGone(p) ==
  /\ pc[p] \in {"lifecycle", "lifecycle_wait"}
  /\ ~peerGone[p]
  /\ peerGone' = [peerGone EXCEPT ![p] = TRUE]
  /\ UNCHANGED <<regVars, closed, muxCloses, procVars, closeVars, others>>

\* ---------------------------------------------------------------- CloseAll
\* registry.go 187-188: Range starts.  Range is not a snapshot: it visits no
\* key twice, and visits every key that is present during the whole call.
CloseAll ==
  /\ cpc.at = "off"
  /\ closeAlls < MaxCloseAll
  /\ cpc' = [at |-> "Range", entry |-> NoEntry]
  /\ todo' = sessions
  /\ visited' = {}
  /\ UNCHANGED <<regVars, sessVars, procVars, closeAlls, others>>

\* registry.go 188-189, 196-197: the next entry, or the end of the Range
CloseAll_Range ==
  /\ cpc.at = "Range"
  /\ \/ \E e \in todo \cup sessions :
          /\ e.key \notin visited
          /\ visited' = visited \cup {e.key}
          /\ cpc' = [at |-> IF e.TCPListener # 0 THEN "closeListener"
                            ELSE "closeSession",
                     entry |-> e]
          /\ UNCHANGED <<todo, closeAlls>>
     \/ /\ \A e \in todo \cap sessions : e.key \in visited
        /\ cpc' = [at |-> "off", entry |-> NoEntry]
        /\ todo' = {}
        /\ visited' = {}
        /\ closeAlls' = closeAlls + 1
  /\ UNCHANGED <<regVars, sessVars, procVars, others>>

\* registry.go 191-193
CloseAll_closeListener ==
  /\ cpc.at = "closeListener"
  /\ listeners' = [listeners EXCEPT ![cpc.entry.TCPListener] = "closed"]
  /\ cpc' = [cpc EXCEPT !.at = "closeSession"]
  /\ UNCHANGED <<sessions, count, tcpPorts, tcpPortMu, sessVars, procVars, todo,
                 visited, closeAlls, others>>

\* registry.go 194-195
CloseAll_closeSession ==
  /\ cpc.at = "closeSession"
  /\ SessionClose(cpc.entry.Session)
  /\ cpc' = [at |-> "Range", entry |-> NoEntry]
  /\ UNCHANGED <<regVars, peerGone, procVars, todo, visited, closeAlls, others>>

\* -------------------------------------------------------------- the hub
\* connections the hub accepts
NumConns == 2
Conns == 1 .. NumConns

GoodHeader == BearerPrefix \o ServerToken
BadHeader == BearerPrefix \o <<"x">>

Request(h, sub, t) == [authz |-> h, subdomain |-> sub, type |-> t]

\* handshake requests: valid ones for two tenants (one under two casings,
\* both tunnel kinds), and one for each check the handler makes
HubRequests ==
  { Request(GoodHeader, IdAbc, ""), Request(GoodHeader, IdABC, "http"),
    Request(GoodHeader, IdAbc, "tcp"), Request(GoodHeader, IdB0, "tcp"),
    Request(BadHeader, IdAbc, "http"), Request(GoodHeader, <<>>, "http"),
    Request(GoodHeader, IdAbc, "udp"), Request(GoodHeader, IdAb, "http") }

\* server.go 85-110 (New): a hub with an empty registry, no connection yet
Init ==
  /\ NewSessionRegistry
  /\ InitRest
  /\ NoRequests
  /\ pc = [p \in Procs |-> IF p \in Conns THEN "idle" ELSE "off"]
  /\ call = [p \in Procs |-> ""]
  /\ arg = [p \in Procs |-> <<>>]

\* server.go 99: the HTTP server runs handleConnect for a /_connect request
HubConnect(p) ==
  /\ pc[p] = "idle"
  /\ \E r \in HubRequests :
       /\ authz' = [authz EXCEPT ![p] = r.authz]
       /\ arg' = [arg EXCEPT ![p] = r.subdomain]
       /\ typ' = [typ EXCEPT ![p] = r.type]
  /\ pc' = [pc EXCEPT ![p] = "handleConnect"]
  /\ UNCHANGED <<regVars, sessVars, rpc, call, port, lst, res, ent, scan, status,
                 closeVars, others>>

\* the steps of one connection's goroutines
HubStep(p) ==
  \/ handleConnect(p)
  \/ handleConnect_exists(p)
  \/ handleConnect_alloc(p)
  \/ handleConnect_listenFailed(p)
  \/ handleConnect_upgrade(p)
  \/ handleConnect_closeListener(p)
  \/ handleConnect_registered(p)
  \/ handleConnect_closeSession(p)
  \/ lifecycle(p)
  \/ lifecycle_wait(p)
  \/ lifecycle_done(p)
  \/ handleTCPListener(p)
  \/ Exists(p)
  \/ AllocateTCPPort(p)
  \/ AllocateTCPPort_scan(p)
  \/ ReleaseTCPPort_call(p)
  \/ RegisterWithOptions(p)
  \/ RegisterWithOptions_count(p)
  \/ Unregister(p)
  \/ Unregister_count(p)
  \/ Unregister_close(p)
  \/ Unregister_release(p)

\* the steps of a CloseAll call that has started
CloseAllStep ==
  \/ CloseAll_Range
  \/ CloseAll_closeListener
  \/ CloseAll_closeSession

Next ==
  \/ \E p \in Procs : HubConnect(p) \/ HubStep(p) \/ AgentGone(p)
  \/ CloseAll
  \/ CloseAllStep

Spec == Init /\ [][Next]_vars

\* goroutines that can run do run; requests, agents going away and CloseAll
\* calls happen or not
FairSpec ==
  /\ Init
  /\ [][Next]_vars
  /\ \A p \in Procs : WF_vars(HubStep(p))
  /\ WF_vars(CloseAllStep)

\* the entry of the session that connection p built is in the registry
SessionRegistered(p) == \E e \in sessions : e.Session = p

\* no entry has been removed and the hub is not closing its sessions
NothingRemoved ==
  /\ \A r \in Procs : call[r] # "Unregister"
  /\ closeAlls = 0
  /\ cpc.at = "off"

\* C2: two handshakes for the same tenant-id (both authenticated, id valid),
\* made while the id is free and nothing is removed from the registry, are
\* never both answered with 101 Switching Protocols.
C2_OneUpgradePerTenant ==
  \A p, q \in Procs :
    ( /\ p # q
      /\ NothingRemoved
      /\ ValidateRequest(authz[p]) = "nil"
      /\ ValidateRequest(authz[q]) = "nil"
      /\ TenantRule(LowerCased(arg[p]))
      /\ SameId(arg[p], arg[q])
      /\ status[p] = StatusSwitchingProtocols )
    => status[q] # StatusSwitchingProtocols

\* C3: once the agent's end of a registered session is gone, the hub
\* eventually removes the session's entry from the registry, without any
\* CloseAll (the hub shutting down) being needed for it.
C3_RemovedAfterAgentGone ==
  \A p \in Procs :
    (peerGone[p] /\ SessionRegistered(p))
      ~> (~SessionRegistered(p) \/ closeAlls > 0 \/ cpc.at # "off")

\* C4: any two registered TCP sessions hold different ports, and every port
\* that AllocateTCPPort returned or reserved lies in
\* tcpPortStart .. tcpPortEnd.
C4_DistinctPortsInRange ==
  /\ \A e1, e2 \in sessions :
       (e1.TunnelType = "tcp" /\ e2.TunnelType = "tcp" /\ e1 # e2)
         => e1.TCPPort # e2.TCPPort
  /\ \A e \in sessions :
       e.TunnelType = "tcp" => e.TCPPort \in tcpPortStart .. tcpPortEnd
  /\ \A p \in Procs : port[p] # 0 => port[p] \in tcpPortStart .. tcpPortEnd
  /\ \A t \in tcpPorts : t.key \in tcpPortStart .. tcpPortEnd

C4_Witness ==
  \E e1, e2 \in sessions :
    /\ e1.TunnelType = "tcp" /\ e2.TunnelType = "tcp"
    /\ e1.TCPPort = tcpPortStart
    /\ e2.TCPPort = tcpPortStart + 1
    /\ \A p \in Conns : pc[p] = "lifecycle_wait"

\* C9 as stated: when the second CloseAll returns, Count() is 0.
C9_AsStated ==
  [][(closeAlls = 1 /\ closeAlls' = 2) => count' = 0]_vars

\* C9, amended: CloseAll after CloseAll is safe, no session's multiplexer and
\* socket are closed more than once; a step of CloseAll removes no entry and
\* leaves Count() as it is; Count() is 0 once, besides, the goroutines of
\* every connection have returned.
C9_CloseAllTwiceIsSafe ==
  [][ /\ \A o \in Objs : muxCloses'[o] <= 1
      /\ cpc' # cpc => (sessions' = sessions /\ count' = count)
      /\ ( /\ closeAlls' >= 2
           /\ \A p \in Procs : pc'[p] \in {"idle", "done", "off"} )
         => (count' = 0 /\ sessions' = {}) ]_vars

\* the second CloseAll has visited a session that the first one closed and
\* whose entry is still in the registry
C9_Witness ==
  /\ closeAlls = 1
  /\ cpc.at = "Range"
  /\ count = 1
  /\ \E e \in sessions :
       /\ e.key \in visited
       /\ closed[e.Session]
       /\ muxCloses[e.Session] = 1


\* ------------------------------------------------- port allocation alone
\* Goroutines use the port range as the hub's handlers do (server.go 206,
\* 217, 235, 247, 266; registry.go 151): each allocates a port, holds it,
\* releases the port it holds, and starts again.
PortInit ==
  /\ NewSessionRegistry
  /\ InitRest
  /\ NoRequests
  /\ pc = [p \in Procs |-> "idle"]
  /\ call = [p \in Procs |-> ""]
  /\ arg = [p \in Procs |-> IdB0]

PortCall(p) ==
  /\ pc[p] = "idle"
  /\ IF port[p] = 0
     THEN Invoke(p, "AllocateTCPPort", "ret")
     ELSE Invoke(p, "ReleaseTCPPort", "ret")
  /\ UNCHANGED <<regVars, sessVars, arg, typ, authz, port, lst, res, ent, scan,
                 status, closeVars, others>>

\* the caller drops the port it released
PortReturn(p) ==
  /\ pc[p] = "ret"
  /\ port' = [port EXCEPT ![p] = IF call[p] = "ReleaseTCPPort" THEN 0 ELSE @]
  /\ pc' = [pc EXCEPT ![p] = "idle"]
  /\ UNCHANGED <<regVars, sessVars, rpc, call, arg, typ, authz, lst, res, ent,
                 scan, status, closeVars, others>>

PortNext ==
  \E p \in Procs :
    \/ PortCall(p)
    \/ PortReturn(p)
    \/ AllocateTCPPort(p)
    \/ AllocateTCPPort_scan(p)
    \/ ReleaseTCPPort_call(p)

SpecPort == PortInit /\ [][PortNext]_vars

PortRange == tcpPortStart .. tcpPortEnd
InPortMap(m, k) == \E t \in m : t.key = k
FreePorts(m) == {k \in PortRange : ~InPortMap(m, k)}
IsLowestFree(m, k) == k \in FreePorts(m) /\ \A j \in FreePorts(m) : k <= j
\* the scan of p leaves with a port / with the error
ScanReturnsPort(p) ==
  pc[p] = "AllocateTCPPort_scan" /\ pc'[p] = rpc[p] /\ res'[p] = "nil"
ScanReturnsError(p) ==
  pc[p] = "AllocateTCPPort_scan" /\ pc'[p] = rpc[p] /\ res'[p] # "nil"
\* every port the scan of p has passed is in the port map
PassedPortsTaken(p) ==
  \A j \in PortRange : j < scan[p] => InPortMap(tcpPorts, j)

\* C11 as stated: the port AllocateTCPPort returns is the lowest port of the
\* range that is not in the port map, recorded in the step that returns it;
\* the error is returned when every port is in the map, changing nothing.
C11_AsStated ==
  [][\A p \in Procs :
       /\ ScanReturnsPort(p) =>
            /\ IsLowestFree(tcpPorts, port'[p])
            /\ tcpPorts' = tcpPorts \cup {[key |-> port'[p], sub |-> arg[p]]}
       /\ ScanReturnsError(p) =>
            (FreePorts(tcpPorts) = {} /\ tcpPorts' = tcpPorts)]_vars

\* C11, amended: AllocateTCPPort returns the first port its ascending scan
\* finds absent from the port map and records it in that same step, under
\* the mutex; the scan starts at tcpPortStart and passes only ports that are
\* in the map, and only a ReleaseTCPPort can free a passed port.  So the
\* result is the lowest free port, and the error means that every port is
\* taken, unless a port below the scan position was released during the
\* call; the error changes nothing.
C11_FirstFreePortOfScan ==
  [][\A p \in Procs :
       /\ (pc[p] = "AllocateTCPPort" /\ pc'[p] # pc[p]) =>
            (tcpPortMu' = p /\ PassedPortsTaken(p)')
       /\ ( /\ tcpPortMu = p /\ tcpPortMu' = p
            /\ tcpPorts \subseteq tcpPorts'
            /\ PassedPortsTaken(p) ) => PassedPortsTaken(p)'
       /\ ScanReturnsPort(p) =>
            /\ tcpPortMu = p /\ tcpPortMu' = 0
            /\ port'[p] \in FreePorts(tcpPorts)
            /\ tcpPorts' = tcpPorts \cup {[key |-> port'[p], sub |-> arg[p]]}
            /\ PassedPortsTaken(p) => IsLowestFree(tcpPorts, port'[p])
       /\ ScanReturnsError(p) =>
            /\ tcpPortMu = p /\ tcpPortMu' = 0
            /\ tcpPorts' = tcpPorts
            /\ port'[p] = 0
            /\ PassedPortsTaken(p) => FreePorts(tcpPorts) = {}]_vars

\* a port that one goroutine released is the result of a later call, and a
\* call has found every port taken
C11_Witness ==
  \E p, q, r \in Procs :
    /\ call[q] = "ReleaseTCPPort" /\ pc[q] = "ret" /\ port[q] = tcpPortStart
    /\ call[p] = "AllocateTCPPort" /\ pc[p] = "ret" /\ res[p] = "nil"
    /\ port[p] = tcpPortStart
    /\ call[r] = "AllocateTCPPort" /\ pc[r] = "ret" /\ res[r] # "nil"


\* ------------------------------------- one handshake against a running hub
\* One /_connect request, with every combination of header, tenant-id and
\* kind, arrives at a hub whose other connections are tunnels established
\* earlier: their lifecycle goroutines wait at server.go 300.
NoTunnel == [sub |-> <<>>, type |-> "", port |-> 0]
Tunnel(sub, t, tcpPort) == [sub |-> sub, type |-> t, port |-> tcpPort]

\* no tunnel; one HTTP tunnel; one TCP tunnel on every port of the range
HsEmpty == [q \in Procs |-> NoTunnel]
HsOneHTTP == [q \in Procs |-> IF q = 2 THEN Tunnel(IdAbc, "http", 0) ELSE NoTunnel]
HsPortsTaken ==
  [q \in Procs |->
     IF q >= 2 /\ q - 1 <= NumPorts
     THEN Tunnel(Rep("c", q + 1), "tcp", tcpPortStart + q - 2)
     ELSE NoTunnel]
HsConfigs == {HsEmpty, HsOneHTTP, HsPortsTaken}

\* the state in which the handshakes of the tunnels of cfg left the hub
Established(cfg) ==
  LET up == {q \in Procs : cfg[q] # NoTunnel}
      tcp == {q \in up : cfg[q].type = "tcp"}
  IN  /\ sessions = {SessionEntry(cfg[q].sub, q, cfg[q].type, cfg[q].port,
                                  IF q \in tcp THEN q ELSE 0) : q \in up}
      /\ count = Cardinality(up)
      /\ tcpPorts = {[key |-> cfg[q].port, sub |-> cfg[q].sub] : q \in tcp}
      /\ tcpPortMu = 0
      /\ listeners = [o \in Objs |-> IF o \in tcp THEN "open" ELSE "none"]
      /\ closed = [o \in Objs |-> FALSE]
      /\ muxCloses = [o \in Objs |-> 0]
      /\ peerGone = [o \in Objs |-> FALSE]
      /\ pc = [q \in Procs |-> IF q \in up THEN "lifecycle_wait"
                               ELSE IF q = 1 THEN "idle" ELSE "off"]
      /\ rpc = [q \in Procs |-> IF q \in up THEN "handleConnect_registered"
                                ELSE "done"]
      /\ call = [q \in Procs |-> IF q \in up THEN "RegisterWithOptions" ELSE ""]
      /\ arg = [q \in Procs |-> cfg[q].sub]
      /\ typ = [q \in Procs |-> IF q \in up THEN cfg[q].type ELSE "http"]
      /\ authz = [q \in Procs |-> IF q \in up THEN GoodHeader ELSE <<>>]
      /\ port = [q \in Procs |-> cfg[q].port]
      /\ lst = [q \in Procs |-> IF q \in tcp THEN q ELSE 0]
      /\ res = [q \in Procs |-> IF q \in up THEN "nil" ELSE ""]
      /\ ent = [q \in Procs |-> NoEntry]
      /\ scan = [q \in Procs |-> cfg[q].port]
      /\ status = [q \in Procs |-> IF q \in up THEN StatusSwitchingProtocols
                                   ELSE 0]
      /\ cpc = [at |-> "off", entry |-> NoEntry]
      /\ todo = {}
      /\ visited = {}
      /\ closeAlls = 0
      /\ log = <<>>
      /\ wg = Cardinality(up) + Cardinality(tcp)
      /\ tpc = [q \in Procs |-> IF q \in tcp THEN "handleTCPListener" ELSE "off"]
      /\ closeMu = [o \in Objs |-> 0]

\* Authorization headers: none, the right one, a wrong secret, no scheme,
\* another scheme, an empty bearer, a proper prefix and an extension of the
\* secret, and the scheme in lower case
HsHeaders ==
  { <<>>, GoodHeader, BadHeader, ServerToken,
    <<"B", "a", "s", "i", "c", " ">> \o ServerToken,
    BearerPrefix, BearerPrefix \o <<"t">>,
    BearerPrefix \o ServerToken \o <<"k">>,
    <<"b", "e", "a", "r", "e", "r", " ">> \o ServerToken }
HsIds == {<<>>, IdAbc, IdABC, IdAb, <<"-", "a", "b">>, IdB0, Rep("c", 3)}
HsTypes == {"", "http", "tcp", "udp"}

HsInit == NoRequests /\ \E cfg \in HsConfigs : Established(cfg)

HsConnect(p) ==
  /\ pc[p] = "idle"
  /\ \E h \in HsHeaders, a \in HsIds, t \in HsTypes :
       /\ authz' = [authz EXCEPT ![p] = h]
       /\ arg' = [arg EXCEPT ![p] = a]
       /\ typ' = [typ EXCEPT ![p] = t]
  /\ pc' = [pc EXCEPT ![p] = "handleConnect"]
  /\ UNCHANGED <<regVars, sessVars, rpc, call, port, lst, res, ent, scan, status,
                 closeVars, others>>

HsNext ==
  \E p \in Procs :
    \/ HsConnect(p)
    \/ handleConnect(p)
    \/ Exists(p)
    \/ handleConnect_exists(p)
    \/ AllocateTCPPort(p)
    \/ AllocateTCPPort_scan(p)
    \/ handleConnect_alloc(p)
    \/ ReleaseTCPPort_call(p)
    \/ handleConnect_listenFailed(p)
    \/ handleConnect_upgrade(p)
    \/ handleConnect_closeListener(p)
    \/ RegisterWithOptions(p)
    \/ RegisterWithOptions_count(p)
    \/ handleConnect_registered(p)
    \/ lifecycle(p)

SpecHs == HsInit /\ [][HsNext]_vars


\* the Authorization header the specification asks for: "Bearer " and the
\* configured secret
ClaimedHeader == <<"B", "e", "a", "r", "e", "r", " ", "t", "k">>

\* tunnels other than p's own: their entries, and the ports they reserve
OtherTunnels(p) == {q \in Procs \ {p} : pc[q] = "lifecycle_wait"}
OtherEntries(p) ==
  {SessionEntry(arg[q], q, typ[q], port[q], lst[q]) : q \in OtherTunnels(p)}
OtherPorts(p) ==
  {[key |-> port[q], sub |-> arg[q]] : q \in {r \in OtherTunnels(p) : port[r] # 0}}

\* the status with which the specification rejects the request of p, 0 when
\* it does not: authentication first, then the request's syntax, then the
\* collision, then the port
ExpectedRejection(p) ==
  IF authz[p] # ClaimedHeader THEN 401
  ELSE IF \/ arg[p] = <<>>
          \/ ~TenantRule(LowerCased(arg[p]))
          \/ typ[p] \notin {"", "http", "tcp"} THEN 400
  ELSE IF \E e \in OtherEntries(p) : SameId(e.key, arg[p]) THEN 409
  ELSE IF typ[p] = "tcp" /\ FreePorts(OtherPorts(p)) = {} THEN 503
  ELSE 0

\* C12: a handshake with a missing or wrong bearer is answered 401 whatever
\* else is wrong with it; otherwise one with a missing or (after case
\* folding) invalid tenant-id or an unknown kind is answered 400; otherwise
\* one for a registered tenant-id 409; otherwise a TCP one with no free port
\* 503.  Such a handshake is never upgraded, and at every point of it the
\* registry, Count() and the port map are as the established tunnels left
\* them.
C12_HandshakeRejections ==
  \A p \in Procs :
    (pc[p] \notin {"idle", "off"} /\ ExpectedRejection(p) # 0) =>
      /\ status[p] \in {0, ExpectedRejection(p)}
      /\ pc[p] = "done" => status[p] = ExpectedRejection(p)
      /\ sessions = OtherEntries(p)
      /\ count = Cardinality(OtherTunnels(p))
      /\ tcpPorts = OtherPorts(p)
      /\ lst[p] = 0
      /\ \A o \in Objs : listeners[o] = "open" => o \in OtherTunnels(p)

\* a TCP handshake was answered 503 while every port is held by a tunnel
C12_Witness ==
  /\ pc[1] = "done"
  /\ status[1] = 503
  /\ authz[1] = ClaimedHeader
  /\ typ[1] = "tcp"
  /\ Cardinality(tcpPorts) = NumPorts


\* ------------------------------------------- authentication of a handshake
\* auth_test.go 118-171: a request for a free, valid tenant-id arrives with
\* an Authorization header made of a scheme (none, "Bearer ", "Bearer",
\* "bearer ", "Basic ", " Bearer ") and every token of up to MaxTokenLen
\* characters.
MaxTokenLen == 3
AuthSchemes ==
  { <<>>, BearerPrefix, <<"B", "e", "a", "r", "e", "r">>,
    <<"b", "e", "a", "r", "e", "r", " ">>, <<"B", "a", "s", "i", "c", " ">>,
    <<" ">> \o BearerPrefix }
AuthTokens == SeqsUpTo({"t", "k", "x", " "}, MaxTokenLen)
AuthHeaders == {sch \o tok : sch \in AuthSchemes, tok \in AuthTokens}

AuthInit == NoRequests /\ Established(HsEmpty)

AuthConnect(p) ==
  /\ pc[p] = "idle"
  /\ \E h \in AuthHeaders : authz' = [authz EXCEPT ![p] = h]
  /\ arg' = [arg EXCEPT ![p] = IdAbc]
  /\ typ' = [typ EXCEPT ![p] = ""]
  /\ pc' = [pc EXCEPT ![p] = "handleConnect"]
  /\ UNCHANGED <<regVars, sessVars, rpc, call, port, lst, res, ent, scan, status,
                 closeVars, others>>

AuthNext ==
  \E p \in Procs :
    \/ AuthConnect(p)
    \/ handleConnect(p)
    \/ Exists(p)
    \/ handleConnect_exists(p)
    \/ handleConnect_upgrade(p)
    \/ RegisterWithOptions(p)
    \/ RegisterWithOptions_count(p)
    \/ handleConnect_registered(p)
    \/ lifecycle(p)

SpecAuth == AuthInit /\ [][AuthNext]_vars

\* C13: ValidateRequest accepts a header if and only if it is exactly
\* "Bearer " followed by the configured secret, and handleConnect answers
\* every request with another header with 401 at its first step and no
\* request with the right header with 401.
C13_BearerExactlySecret ==
  \A p \in Procs :
    pc[p] \notin {"idle", "off"} =>
      /\ (ValidateRequest(authz[p]) = "nil") <=> (authz[p] = ClaimedHeader)
      /\ authz[p] # ClaimedHeader =>
           IF pc[p] = "handleConnect" THEN status[p] = 0
           ELSE pc[p] = "done" /\ status[p] = 401
      /\ authz[p] = ClaimedHeader => status[p] # 401

\* a proper prefix of the secret as bearer was answered 401
C13_Witness ==
  /\ authz[1] = <<"B", "e", "a", "r", "e", "r", " ", "t">>
  /\ pc[1] = "done"
  /\ status[1] = 401


\* --------------------------------------------- streams of one session
\* Goroutines call OpenStream, AcceptStream and Close on one session
\* (transport.go 185-231), one call each.  Close holds closeMu from its first
\* line to its return; OpenStream and AcceptStream hold the read lock only
\* while they read the closed flag, then call the multiplexer.  A multiplexer
\* that was closed answers every Open and Accept, blocked ones included, with
\* its own error (yamux.ErrSessionShutdown).
TheSession == PreExisting
SessMethods == {"OpenStream", "AcceptStream", "Close"}

\* the closed flag never consulted
checkClosed_Never(isClosed) == "nil"

\* transport.go 186-191, 197-202
checkClosed(isClosed) == IF isClosed THEN "ErrSessionClosed" ELSE "nil"

SessInit ==
  /\ NewSessionRegistry
  /\ InitRest
  /\ NoRequests
  /\ pc = [p \in Procs |-> "idle"]
  /\ call = [p \in Procs |-> ""]
  /\ arg = [p \in Procs |-> <<>>]

SessCall(p) ==
  /\ pc[p] = "idle"
  /\ \E m \in SessMethods : Invoke(p, m, "done")
  /\ UNCHANGED <<regVars, sessVars, arg, typ, authz, port, lst, res, ent, scan,
                 status, closeVars, others>>

\* transport.go 186-192: the flag is read under the read lock
OpenStream(p) ==
  /\ pc[p] = "OpenStream"
  /\ closeMu[TheSession] = 0
  /\ IF checkClosed(closed[TheSession]) # "nil"
     THEN Return(p, checkClosed(closed[TheSession]))
     ELSE /\ pc' = [pc EXCEPT ![p] = "OpenStream_Open"]
          /\ UNCHANGED res
  /\ UNCHANGED <<regVars, sessVars, rpc, call, arg, typ, authz, port, lst, ent,
                 scan, status, closeVars, others>>

\* transport.go 192: yamuxSession.Open()
OpenStream_Open(p) ==
  /\ pc[p] = "OpenStream_Open"
  /\ Return(p, IF muxCloses[TheSession] > 0 THEN "yamux.ErrSessionShutdown"
               ELSE "nil")
  /\ UNCHANGED <<regVars, sessVars, rpc, call, arg, typ, authz, port, lst, ent,
                 scan, status, closeVars, others>>

\* transport.go 197-205
AcceptStream(p) ==
  /\ pc[p] = "AcceptStream"
  /\ closeMu[TheSession] = 0
  /\ IF checkClosed(closed[TheSession]) # "nil"
     THEN Return(p, checkClosed(closed[TheSession]))
     ELSE /\ pc' = [pc EXCEPT ![p] = "AcceptStream_Accept"]
          /\ UNCHANGED res
  /\ UNCHANGED <<regVars, sessVars, rpc, call, arg, typ, authz, port, lst, ent,
                 scan, status, closeVars, others>>

\* transport.go 205: yamuxSession.Accept() returns once the multiplexer is
\* closed
AcceptStream_Accept(p) ==
  /\ pc[p] = "AcceptStream_Accept"
  /\ muxCloses[TheSession] > 0
  /\ Return(p, "yamux.ErrSessionShutdown")
  /\ UNCHANGED <<regVars, sessVars, rpc, call, arg, typ, authz, port, lst, ent,
                 scan, status, closeVars, others>>

\* transport.go 205: the peer opens a stream, yamuxSession.Accept() returns it
StreamArrives(p) ==
  /\ pc[p] = "AcceptStream_Accept"
  /\ muxCloses[TheSession] = 0
  /\ Return(p, "nil")
  /\ UNCHANGED <<regVars, sessVars, rpc, call, arg, typ, authz, port, lst, ent,
                 scan, status, closeVars, others>>

\* transport.go 210-217: lock, return nil if closed, else set the flag and
\* cancel the context
Close_flag(p) ==
  /\ pc[p] = "Close"
  /\ closeMu[TheSession] = 0
  /\ LET r == Close(closed[TheSession], muxCloses[TheSession])
     IN  /\ closed' = [closed EXCEPT ![TheSession] = r.closed]
         /\ IF r.muxCloses = muxCloses[TheSession]
            THEN /\ Return(p, "nil")
                 /\ UNCHANGED closeMu
            ELSE /\ pc' = [pc EXCEPT ![p] = "Close_mux"]
                 /\ closeMu' = [closeMu EXCEPT ![TheSession] = p]
                 /\ UNCHANGED res
  /\ UNCHANGED <<regVars, muxCloses, peerGone, rpc, call, arg, typ, authz, port,
                 lst, ent, scan, status, closeVars, ingressVars, log, wg, tpc>>

\* transport.go 219-231: the multiplexer and the socket are closed, unlock
Close_mux(p) ==
  /\ pc[p] = "Close_mux"
  /\ muxCloses' = [muxCloses EXCEPT ![TheSession] = @ + 1]
  /\ closeMu' = [closeMu EXCEPT ![TheSession] = 0]
  /\ Return(p, "nil")
  /\ UNCHANGED <<regVars, closed, peerGone, rpc, call, arg, typ, authz, port,
                 lst, ent, scan, status, closeVars, ingressVars, log, wg, tpc>>

\* the steps a goroutine takes by itself once it has made its call
SessStep(p) ==
  \/ OpenStream(p)
  \/ OpenStream_Open(p)
  \/ AcceptStream(p)
  \/ AcceptStream_Accept(p)
  \/ Close_flag(p)
  \/ Close_mux(p)

SessNext == \E p \in Procs : SessCall(p) \/ SessStep(p) \/ StreamArrives(p)

SpecSess == SessInit /\ [][SessNext]_vars

\* a goroutine that can go on does; calls and the peer's streams come or not
FairSpecSess ==
  /\ SessInit
  /\ [][SessNext]_vars
  /\ \A p \in Procs : WF_vars(SessStep(p))


StreamCall(p) == call[p] \in {"OpenStream", "AcceptStream"}
CloseReturned == \E q \in Procs : call[q] = "Close" /\ pc[q] = "done"
StreamCallReturns(p) == StreamCall(p) /\ pc[p] # "done" /\ pc'[p] = "done"

\* C14 as stated: every OpenStream and AcceptStream call that returns after a
\* Close of the session has returned, whenever it started, returns
\* ErrSessionClosed.
C14_AsStated ==
  [][\A p \in Procs :
       (StreamCallReturns(p) /\ CloseReturned) =>
         res'[p] = "ErrSessionClosed"]_vars

\* C14, amended: once Close has set the closed flag, every OpenStream and
\* AcceptStream call that reads the flag returns ErrSessionClosed at once;
\* a call that read the flag before Close and returns after Close has
\* returned fails as well, but with the multiplexer's error and not with
\* ErrSessionClosed.
C14_ClosedSessionRejectsStreams ==
  [][\A p \in Procs :
       /\ ( /\ pc[p] \in {"OpenStream", "AcceptStream"}
            /\ pc'[p] # pc[p]
            /\ closed[TheSession] ) =>
            (pc'[p] = "done" /\ res'[p] = "ErrSessionClosed")
       /\ ( /\ pc[p] \in {"OpenStream_Open", "AcceptStream_Accept"}
            /\ StreamCallReturns(p)
            /\ CloseReturned ) =>
            res'[p] = "yamux.ErrSessionShutdown"
       /\ CloseReturned => closed[TheSession]]_vars

\* after a Close, one call was refused on the flag and another, which was
\* waiting in Accept, was ended by the multiplexer
C14_Witness ==
  \E p, q, r \in Procs :
    /\ call[r] = "Close" /\ pc[r] = "done"
    /\ call[p] = "OpenStream" /\ pc[p] = "done" /\ res[p] = "ErrSessionClosed"
    /\ call[q] = "AcceptStream" /\ pc[q] = "done"
    /\ res[q] = "yamux.ErrSessionShutdown"


InMultiplexer(p) == pc[p] \in {"OpenStream_Open", "AcceptStream_Accept"}

\* C15: Close is idempotent: the multiplexer and the socket of a session are
\* closed at most once, and a Close that finds the session closed returns nil
\* at once and closes nothing.  Close never deadlocks with an OpenStream or
\* an AcceptStream: every Close returns, every open or accept that is in the
\* multiplexer when the session is closed returns, and it returns an error
\* once the multiplexer is closed.
C15_CloseIdempotentAndWakes ==
  /\ [](muxCloses[TheSession] <= 1)
  /\ [][\A p \in Procs :
          /\ (pc[p] = "Close" /\ pc'[p] # pc[p] /\ closed[TheSession]) =>
               /\ pc'[p] = "done" /\ res'[p] = "nil"
               /\ muxCloses' = muxCloses /\ closed' = closed
          /\ (call[p] = "Close" /\ pc[p] # "done" /\ pc'[p] = "done") =>
               (res'[p] = "nil" /\ closed'[TheSession])
          /\ (InMultiplexer(p) /\ pc'[p] = "done"
                /\ muxCloses[TheSession] > 0) => res'[p] # "nil"]_vars
  /\ \A p \in Procs : (pc[p] \in {"Close", "Close_mux"}) ~> (pc[p] = "done")
  /\ \A p \in Procs :
       (InMultiplexer(p) /\ closed[TheSession]) ~> (pc[p] = "done")

\* two Close calls have returned, the multiplexer was closed once, and an
\* accept that was waiting was ended with an error
C15_Witness ==
  \E p, q, r \in Procs :
    /\ p # q
    /\ call[p] = "Close" /\ pc[p] = "done"
    /\ call[q] = "Close" /\ pc[q] = "done"
    /\ muxCloses[TheSession] = 1
    /\ call[r] = "AcceptStream" /\ pc[r] = "done"
    /\ res[r] = "yamux.ErrSessionShutdown"

\* ------------------------------------------------- ingress: pure functions
Slash == <<"/">>

\* index of the first "/" of s, or Len(s) + 1
FirstSlash(s) ==
  IF \E i \in 1 .. Len(s) : s[i] = "/"
  THEN CHOOSE i \in 1 .. Len(s) :
         s[i] = "/" /\ \A j \in 1 .. (i - 1) : s[j] # "/"
  ELSE Len(s) + 1

\* protocol.ExtractTunnelIDFromPath: the first path segment after the leading
\* "/" (update.ps1 206-257 holds its test)
ExtractTunnelIDFromPath(path) ==
  LET rest == TrimPrefix(path, Slash)
  IN  SubSeq(rest, 1, FirstSlash(rest) - 1)

\* the path of a URL scheme://host/path
URLPath(url) ==
  LET k == IF \E i \in 1 .. (Len(url) - 2) :
                SubSeq(url, i, i + 2) = <<":", "/", "/">>
           THEN CHOOSE i \in 1 .. (Len(url) - 2) :
                  /\ SubSeq(url, i, i + 2) = <<":", "/", "/">>
                  /\ \A j \in 1 .. (i - 1) :
                       SubSeq(url, j, j + 2) # <<":", "/", "/">>
           ELSE 0
      afterScheme == IF k = 0 THEN url ELSE SubSeq(url, k + 3, Len(url))
  IN  IF k = 0 THEN url
      ELSE SubSeq(afterScheme, FirstSlash(afterScheme), Len(afterScheme))

\* protocol.ExtractTunnelIDFromReferer: the first path segment of the
\* Referer's URL path
ExtractTunnelIDFromReferer(referer) == ExtractTunnelIDFromPath(URLPath(referer))

\* a prefix match that ignores the segment boundary
StripTunnelIDPrefix_Partial(path, tunnelID) ==
  IF tunnelID = <<>> \/ ~HasPrefix(path, Slash \o tunnelID) THEN path
  ELSE LET rest == SubSeq(path, Len(tunnelID) + 2, Len(path))
       IN  IF rest = <<>> THEN Slash ELSE rest

\* protocol.StripTunnelIDPrefix: "/" + tunnelID and what follows it up to the
\* next segment are replaced by the rest of the path, or by "/" when nothing
\* is left (update.ps1 259-318 holds its test)
StripTunnelIDPrefix(path, tunnelID) ==
  LET prefix == Slash \o tunnelID
  IN  IF tunnelID = <<>> THEN path
      ELSE IF path = prefix \/ path = prefix \o Slash THEN Slash
      ELSE IF HasPrefix(path, prefix \o Slash)
           THEN SubSeq(path, Len(prefix) + 1, Len(path))
      ELSE path

\* protocol.go 75-80: the loop from the end of the host to its last ":"
LastColon(host) ==
  IF \E i \in 1 .. Len(host) : host[i] = ":"
  THEN CHOOSE i \in 1 .. Len(host) :
         host[i] = ":" /\ \A j \in (i + 1) .. Len(host) : host[j] # ":"
  ELSE 0

\* the suffix compared without its leading dot
ExtractSubdomain_NoDot(rHost, baseDomain) ==
  LET host == IF LastColon(rHost) = 0 THEN rHost
              ELSE SubSeq(rHost, 1, LastColon(rHost) - 1)
  IN  IF Len(host) <= Len(baseDomain) THEN <<>>
      ELSE IF SubSeq(host, Len(host) - Len(baseDomain) + 1, Len(host))
                = baseDomain
           THEN SubSeq(host, 1, Len(host) - Len(baseDomain) - 1)
      ELSE <<>>

\* protocol.go 72-94
ExtractSubdomain(rHost, baseDomain) ==
  LET host == IF LastColon(rHost) = 0 THEN rHost
              ELSE SubSeq(rHost, 1, LastColon(rHost) - 1)
      suffix == <<".">> \o baseDomain
  IN  IF Len(host) <= Len(baseDomain) THEN <<>>
      ELSE IF /\ Len(host) > Len(suffix)
              /\ SubSeq(host, Len(host) - Len(suffix) + 1, Len(host)) = suffix
           THEN SubSeq(host, 1, Len(host) - Len(suffix))
      ELSE <<>>

\* ------------------------------------------------ path rewriting alone
\* server.go 424-426 applied to every short path and tunnel id
MaxPathLen == 5
StripPaths == SeqsUpTo({"/", "a", "b"}, MaxPathLen)
StripIds == SeqsUpTo({"a", "b"}, 2)

StripArrive ==
  /\ req.at = "idle"
  /\ \E P \in StripPaths, T \in StripIds :
       req' = [NoRequest EXCEPT !.at = "strip", !.Path = P, !.tunnelID = T,
                                !.fromPath = TRUE]
  /\ UNCHANGED <<regVars, sessVars, procVars, closeVars, log, wg, tpc, closeMu,
                 config, RequestCount, RateLimiter, streams, now, shutdown,
                 client, bridge, ws>>

\* server.go 425-426
handleRequest_strip ==
  /\ req.at = "strip"
  /\ req' = [req EXCEPT !.at = "stripped",
                        !.originalPath = req.Path,
                        !.Path = StripTunnelIDPrefix(req.Path, req.tunnelID)]
  /\ UNCHANGED <<regVars, sessVars, procVars, closeVars, log, wg, tpc, closeMu,
                 config, RequestCount, RateLimiter, streams, now, shutdown,
                 client, bridge, ws>>

StripNext == StripArrive \/ handleRequest_strip

SpecStrip == Init /\ [][StripNext]_vars

\* P starts with the whole segment /T: P is /T followed by nothing or by a
\* part that begins with "/"
AfterSegment(P, T) == SubSeq(P, Len(T) + 2, Len(P))
StartsWithSegment(P, T) ==
  /\ Len(P) >= Len(T) + 1
  /\ P[1] = "/"
  /\ \A i \in 1 .. Len(T) : P[i + 1] = T[i]
  /\ (Len(P) > Len(T) + 1 => P[Len(T) + 2] = "/")

\* C17: StripTunnelIDPrefix(P, T) is P when T is empty or P does not start
\* with the whole segment /T (so /T-extra/... is left alone), it is / when P
\* is /T or /T/, and it is /rest when P is /T/rest.
C17_StripWholeSegmentOnly ==
  req.at = "stripped" =>
    LET P == req.originalPath
        T == req.tunnelID
    IN  /\ (T = <<>> \/ ~StartsWithSegment(P, T)) => req.Path = P
        /\ (T # <<>> /\ StartsWithSegment(P, T)) =>
             /\ Len(AfterSegment(P, T)) <= 1 => req.Path = <<"/">>
             /\ Len(AfterSegment(P, T)) > 1 => req.Path = AfterSegment(P, T)

\* /abb/ was left alone when the tunnel is ab
C17_Witness ==
  /\ req.at = "stripped"
  /\ req.tunnelID = <<"a", "b">>
  /\ req.originalPath = <<"/", "a", "b", "b", "/">>
  /\ req.Path = req.originalPath

\* ------------------------------------------------- the ingress router
\* One goroutine of the HTTP server runs handleRequest (server.go 373-496);
\* req.at is its position.  Every call of the registry, of the limiter, of the
\* counter and of the session is one step.
hubVars ==
  <<regVars, sessVars, procVars, closeVars, log, wg, tpc, closeMu, shutdown,
    client, bridge, ws>>

\* http.Error(w, ..., code); return
Answer(code) == [req EXCEPT !.at = "done", !.status = code]

\* the path segment taken for a tenant without asking the registry
Found_Always(m, subdomain) == subdomain # <<>>

\* registry.Exists (registry.go 167-171) of a non-empty id
Found(m, subdomain) == subdomain # <<>> /\ Loaded(m, ToLower(subdomain))

\* server.go 377-382, 435-442: the tenant-id of the path, or of the host
handleRequest ==
  /\ req.at = "handleRequest"
  /\ IF config.RoutingMode = "path"
     THEN LET tunnelID == ExtractTunnelIDFromPath(req.Path)
              fromPath == Found(sessions, tunnelID)
          IN  req' = [req EXCEPT !.tunnelID = tunnelID,
                                 !.fromPath = fromPath,
                                 !.at = IF fromPath THEN "handleRequest_Referer"
                                        ELSE "handleRequest_Cookie"]
     ELSE LET tunnelID == ExtractSubdomain(req.Host, config.BaseDomain)
          IN  IF tunnelID = <<>>
              THEN req' = [Answer(404) EXCEPT !.tunnelID = tunnelID]
              ELSE req' = [req EXCEPT !.tunnelID = tunnelID,
                                      !.at = "handleRequest_Get"]
  /\ UNCHANGED <<hubVars, config, RequestCount, RateLimiter, streams, now>>

\* server.go 385-392: the cookie's value if it is registered
handleRequest_Cookie ==
  /\ req.at = "handleRequest_Cookie"
  /\ req' = [req EXCEPT !.at = "handleRequest_Referer",
                        !.tunnelID = IF Found(sessions, req.Cookie)
                                     THEN req.Cookie ELSE @]
  /\ UNCHANGED <<hubVars, config, RequestCount, RateLimiter, streams, now>>

\* server.go 395: is there still no tunnel
handleRequest_Referer ==
  /\ req.at = "handleRequest_Referer"
  /\ req' = [req EXCEPT !.at = IF ~Found(sessions, req.tunnelID)
                               THEN "handleRequest_RefererID"
                               ELSE "handleRequest_NotFound"]
  /\ UNCHANGED <<hubVars, config, RequestCount, RateLimiter, streams, now>>

\* server.go 396-403: the tenant-id of the Referer if it is registered
handleRequest_RefererID ==
  /\ req.at = "handleRequest_RefererID"
  /\ LET refererTunnelID == ExtractTunnelIDFromReferer(req.Referer)
     IN  req' = [req EXCEPT !.at = "handleRequest_NotFound",
                            !.tunnelID =
                               IF req.Referer # <<>>
                                  /\ Found(sessions, refererTunnelID)
                               THEN refererTunnelID ELSE @]
  /\ UNCHANGED <<hubVars, config, RequestCount, RateLimiter, streams, now>>

\* server.go 406-434: 404 without a registered tunnel; a tunnel taken from the
\* path sets the cookie and is stripped from the path
handleRequest_NotFound ==
  /\ req.at = "handleRequest_NotFound"
  /\ IF ~Found(sessions, req.tunnelID)
     THEN req' = Answer(404)
     ELSE IF req.fromPath
     THEN req' = [req EXCEPT !.at = "handleRequest_Get",
                             !.setCookie = req.tunnelID,
                             !.originalPath = req.Path,
                             !.Path = StripTunnelIDPrefix(req.Path, req.tunnelID)]
     ELSE req' = [req EXCEPT !.at = "handleRequest_Get"]
  /\ UNCHANGED <<hubVars, config, RequestCount, RateLimiter, streams, now>>

\* server.go 445-449, registry.go 157-164: the entry, or 404
handleRequest_Get ==
  /\ req.at = "handleRequest_Get"
  /\ IF Loaded(sessions, ToLower(req.tunnelID))
     THEN req' = [req EXCEPT !.at = "handleRequest_Allow",
                             !.entry = Load(sessions, ToLower(req.tunnelID)).Session]
     ELSE req' = Answer(404)
  /\ UNCHANGED <<hubVars, config, RequestCount, RateLimiter, streams, now>>

\* rate.Limiter.Allow at time t: the bucket fills with the time elapsed, up to
\* its burst, and gives one token if it holds one
Refilled(lim, t) ==
  LET filled == lim.tokens + (t - lim.last) * lim.limit
  IN  IF filled > 60 * lim.burst THEN 60 * lim.burst ELSE filled

\* a bucket that is never refilled
Allow_NoRefill(lim, t) ==
  IF lim.tokens >= 60
  THEN [ok |-> TRUE, lim |-> [lim EXCEPT !.tokens = lim.tokens - 60, !.last = t]]
  ELSE [ok |-> FALSE, lim |-> lim]

Allow(lim, t) ==
  IF Refilled(lim, t) >= 60
  THEN [ok |-> TRUE,
        lim |-> [lim EXCEPT !.tokens = Refilled(lim, t) - 60, !.last = t]]
  ELSE [ok |-> FALSE, lim |-> lim]

\* the refusal is not answered: the return of server.go 454 is missing
handleRequest_Allow_NoReturn ==
  /\ req.at = "handleRequest_Allow"
  /\ IF RateLimiter[req.entry] # NoLimiter
     THEN RateLimiter' = [RateLimiter EXCEPT
                            ![req.entry] = Allow(RateLimiter[req.entry], now).lim]
     ELSE UNCHANGED RateLimiter
  /\ req' = [req EXCEPT !.at = "handleRequest_Add"]
  /\ UNCHANGED <<hubVars, config, RequestCount, streams, now>>

\* server.go 452-455: 429 when the entry has a limiter and it refuses
handleRequest_Allow ==
  /\ req.at = "handleRequest_Allow"
  /\ IF RateLimiter[req.entry] # NoLimiter
     THEN LET a == Allow(RateLimiter[req.entry], now)
          IN  /\ RateLimiter' = [RateLimiter EXCEPT ![req.entry] = a.lim]
              /\ req' = IF a.ok THEN [req EXCEPT !.at = "handleRequest_Add"]
                        ELSE Answer(429)
     ELSE /\ req' = [req EXCEPT !.at = "handleRequest_Add"]
          /\ UNCHANGED RateLimiter
  /\ UNCHANGED <<hubVars, config, RequestCount, streams, now>>

\* server.go 457
handleRequest_Add ==
  /\ req.at = "handleRequest_Add"
  /\ RequestCount' = [RequestCount EXCEPT ![req.entry] = Add(@, 1)]
  /\ req' = [req EXCEPT !.at = "handleRequest_OpenStream"]
  /\ UNCHANGED <<hubVars, config, RateLimiter, streams, now>>

\* the stream is taken to be open whatever the session's state
handleRequest_OpenStream_NoError ==
  /\ req.at = "handleRequest_OpenStream"
  /\ req' = [req EXCEPT !.at = "handleRequest_Write"]
  /\ streams' = [streams EXCEPT ![req.entry] = @ + 1]
  /\ UNCHANGED <<hubVars, config, RequestCount, RateLimiter, now>>

\* server.go 460-465, transport.go 185-192: the stream, or 502 when the
\* session is closed
handleRequest_OpenStream ==
  /\ req.at = "handleRequest_OpenStream"
  /\ closeMu[req.entry] = 0
  /\ IF checkClosed(closed[req.entry]) # "nil" \/ muxCloses[req.entry] > 0
     THEN /\ req' = Answer(502)
          /\ UNCHANGED streams
     ELSE /\ req' = [req EXCEPT !.at = "handleRequest_Write"]
          /\ streams' = [streams EXCEPT ![req.entry] = @ + 1]
  /\ UNCHANGED <<hubVars, config, RequestCount, RateLimiter, now>>

\* server.go 466-495: the request is written to the stream and the agent's
\* one response parsed and copied back, or 502 when either fails; the Upgrade
\* header is not looked at
handleRequest_Write ==
  /\ req.at = "handleRequest_Write"
  /\ \E code \in {200, 502} :
       req' = [Answer(code) EXCEPT !.via = "ReadResponse"]
  /\ UNCHANGED <<hubVars, config, RequestCount, RateLimiter, streams, now>>

\* the steps of handleRequest
IngressStep ==
  \/ handleRequest
  \/ handleRequest_Cookie
  \/ handleRequest_Referer
  \/ handleRequest_RefererID
  \/ handleRequest_NotFound
  \/ handleRequest_Get
  \/ handleRequest_Allow
  \/ handleRequest_Add
  \/ handleRequest_OpenStream
  \/ handleRequest_Write

\* ----------------------------------- path routing while the hub shuts down
\* Three HTTP tunnels are established.  Requests arrive in path mode while
\* Shutdown runs: server.go 144 calls CloseAll before the HTTP server stops
\* (server.go 150), so the lifecycle goroutines unregister their tunnels
\* while handleRequest reads the registry.
MaxRequests == 2

ThreeTunnels ==
  [q \in Procs |->
     Tunnel(IF q = 1 THEN IdAbc ELSE Rep(IF q = 2 THEN "b" ELSE "c", 3),
            "http", 0)]

PathOf(id) == Slash \o id
RefererOf(id) == <<"h", ":", "/", "/", "d">> \o PathOf(id)

\* paths, cookies and Referers that name a tunnel, name none, or are absent
RoutePaths == {Slash, PathOf(IdABC) \o <<"/", "a">>, PathOf(Rep("a", 3))}
RouteCookies == {<<>>, Rep("b", 3), Rep("a", 3)}
RouteReferers == {<<>>, RefererOf(Rep("c", 3)) \o <<"/", "a">>}

RouteInit ==
  /\ Established(ThreeTunnels)
  /\ Serving([RoutingMode |-> "path", BaseDomain |-> <<>>, RateLimit |-> 0])

\* server.go 99-100: the HTTP server runs handleRequest for a request
RouteArrive ==
  /\ req.at \in {"idle", "done"}
  /\ req.served < MaxRequests
  /\ \E P \in RoutePaths, C \in RouteCookies, R \in RouteReferers :
       req' = [NoRequest EXCEPT !.at = "handleRequest", !.Path = P,
                                !.Cookie = C, !.Referer = R,
                                !.served = req.served + 1]
  /\ UNCHANGED <<hubVars, config, RequestCount, RateLimiter, streams, now>>

\* server.go 142-144: Shutdown calls CloseAll, once
Shutdown == closeAlls = 0 /\ CloseAll

RouteNext ==
  \/ RouteArrive
  \/ IngressStep
  \/ Shutdown
  \/ CloseAll_Range
  \/ CloseAll_closeSession
  \/ \E p \in Procs :
       \/ lifecycle_wait(p)
       \/ Unregister(p)
       \/ Unregister_count(p)
       \/ lifecycle_done(p)

SpecRoute == RouteInit /\ [][RouteNext]_vars

\* the three places a tenant-id is looked for, in the order of the claim
Candidates(r) ==
  << ExtractTunnelIDFromPath(r.Path), r.Cookie,
     ExtractTunnelIDFromReferer(r.Referer) >>
\* no tunnel is established while the hub shuts down, so the tenants that
\* were registered at some moment of the request are those established
WasRegistered(a) ==
  a # <<>> /\ \E q \in Procs : SameId(ThreeTunnels[q].sub, a)
StillRegistered(a) == a # <<>> /\ Registered(a)
\* candidate i can be the first match of some moment of the request
CanBeFirstMatch(r, i) ==
  /\ WasRegistered(Candidates(r)[i])
  /\ \A j \in 1 .. (i - 1) : ~StillRegistered(Candidates(r)[j])

\* C16 as stated: when handleRequest settles on a tenant, it is the first of
\* path segment, cookie and Referer segment that names a registered tenant;
\* when none of them ever named one, the answer is 404 and no stream is
\* opened.
C16_ResolutionOrder ==
  [][ (req.at = "handleRequest_NotFound" /\ req'.at # req.at) =>
        /\ req'.at = "handleRequest_Get" =>
             \E i \in 1 .. 3 :
               /\ req'.tunnelID = Candidates(req)[i]
               /\ CanBeFirstMatch(req, i)
        /\ (\A i \in 1 .. 3 : ~WasRegistered(Candidates(req)[i])) =>
             (req'.at = "done" /\ req'.status = 404 /\ streams' = streams)
    ]_vars

\* ------------------------------------------------ subdomain routing alone
\* Requests with every short Host header arrive at a hub in subdomain mode
\* that holds one HTTP tunnel; handleRequest is followed up to the lookup of
\* the entry.
MaxHostLen == 5
BaseDomains == {<<"b">>, <<"a", ".", "b">>}
Hosts == SeqsUpTo({"a", "b", ".", ":", "8"}, MaxHostLen)

HostInit ==
  /\ Established(HsOneHTTP)
  /\ \E B \in BaseDomains :
       Serving([RoutingMode |-> "subdomain", BaseDomain |-> B, RateLimit |-> 0])

HostArrive ==
  /\ req.at = "idle"
  /\ \E H \in Hosts : req' = [NoRequest EXCEPT !.at = "handleRequest", !.Host = H]
  /\ UNCHANGED <<hubVars, config, RequestCount, RateLimiter, streams, now>>

HostNext == HostArrive \/ handleRequest \/ handleRequest_Get

SpecHost == HostInit /\ [][HostNext]_vars

\* a host name alone, or a host name, a colon and a port number
Digits == {"8"}
PortAt(h, k) == h[k] = ":" /\ \A j \in (k + 1) .. Len(h) : h[j] \in Digits
NameOrNameAndPort(h) ==
  \/ \A k \in 1 .. Len(h) : h[k] # ":"
  \/ \E k \in 1 .. Len(h) : PortAt(h, k) /\ \A j \in 1 .. (k - 1) : h[j] # ":"
HostName(h) ==
  IF \E k \in 1 .. Len(h) : h[k] = ":"
  THEN SubSeq(h, 1, (CHOOSE k \in 1 .. Len(h) : h[k] = ":") - 1)
  ELSE h
\* n is T.B for a non-empty T
IsTDotB(n, T, B) == T # <<>> /\ n = T \o <<".">> \o B
EndsInDotB(n, B) ==
  /\ Len(n) >= Len(B) + 1
  /\ SubSeq(n, Len(n) - Len(B), Len(n)) = <<".">> \o B
HostExtracted == req.at \in {"handleRequest_Get", "handleRequest_Allow", "done"}

\* C18: ExtractSubdomain gives T for the hosts T.B and T.B:port (x.y for
\* x.y.B), and the empty string for the host B, for the empty host and for a
\* host that does not end in .B; in subdomain mode the empty result is
\* answered with 404.
C18_SubdomainOfHost ==
  (HostExtracted /\ NameOrNameAndPort(req.Host)) =>
    LET n == HostName(req.Host)
        B == config.BaseDomain
    IN  /\ \A i \in 1 .. Len(n) :
             IsTDotB(n, SubSeq(n, 1, i), B) => req.tunnelID = SubSeq(n, 1, i)
        /\ (n = B \/ n = <<>> \/ ~EndsInDotB(n, B)) =>
             /\ req.tunnelID = <<>>
             /\ req.at = "done"
             /\ req.status = 404
             /\ streams = [o \in Objs |-> 0]

\* the host a.b:8 under the base domain b gave a
C18_Witness ==
  /\ HostExtracted
  /\ config.BaseDomain = <<"b">>
  /\ req.Host = <<"a", ".", "b", ":", "8">>
  /\ req.tunnelID = <<"a">>

\* ---------------------------------------------- forwarding to one tunnel
\* Requests for the tunnel abc, and for a tenant that does not exist, arrive
\* in subdomain mode at a hub with a limit of 0 or 1 requests per minute; no
\* time passes.  Shutdown may run meanwhile and close the tunnel's session.
ForwardHosts == {IdAbc \o <<".", "b">>, Rep("c", 3) \o <<".", "b">>}

ForwardInit ==
  /\ Established(HsOneHTTP)
  /\ \E N \in {0, 1} :
       Serving([RoutingMode |-> "subdomain", BaseDomain |-> <<"b">>,
                RateLimit |-> N])

ForwardArrive ==
  /\ req.at \in {"idle", "done"}
  /\ req.served < MaxRequests
  /\ \E H \in ForwardHosts, U \in {"", "websocket"} :
       req' = [NoRequest EXCEPT !.at = "handleRequest", !.Host = H,
                                !.Upgrade = U, !.served = req.served + 1]
  /\ UNCHANGED <<hubVars, config, RequestCount, RateLimiter, streams, now>>

ForwardNext ==
  \/ ForwardArrive
  \/ handleRequest
  \/ handleRequest_Get
  \/ handleRequest_Allow
  \/ handleRequest_Add
  \/ handleRequest_OpenStream
  \/ handleRequest_Write
  \/ Shutdown
  \/ CloseAll_Range
  \/ CloseAll_closeSession
  \/ \E p \in Procs :
       \/ lifecycle_wait(p)
       \/ Unregister(p)
       \/ Unregister_count(p)
       \/ lifecycle_done(p)

SpecForward == ForwardInit /\ [][ForwardNext]_vars

\* requests the limiter of entry e has admitted (no time passes, so the
\* bucket is never refilled); every request when there is no limiter
Limited(e) == RateLimiter[e].burst > 0
Admitted(e) == RateLimiter[e].burst - RateLimiter[e].tokens \div 60
Answered(code) == req'.status = code /\ req.status # code

\* C19: for a request that resolved to an entry the hub consults the limiter,
\* then increments the entry's counter, then opens the stream: no entry has
\* more counted requests than admitted ones nor more streams than counted
\* requests; a stream is opened only for a request already counted; 429
\* leaves counter and streams alone; the 502 of a failed stream open comes
\* after the increment.
C19_LimiterThenCountThenStream ==
  /\ [](\A e \in Objs :
          /\ Limited(e) => RequestCount[e] <= Admitted(e)
          /\ streams[e] <= RequestCount[e])
  /\ [][ /\ \A e \in Objs :
              streams'[e] # streams[e] =>
                /\ req.at = "handleRequest_OpenStream"
                /\ streams'[e] <= RequestCount[e]
         /\ \A e \in Objs :
              RequestCount'[e] # RequestCount[e] =>
                /\ req.at = "handleRequest_Add"
                /\ streams' = streams
                /\ Limited(e) => RequestCount'[e] <= Admitted(e)
         /\ Answered(429) =>
              /\ req.at = "handleRequest_Allow"
              /\ RequestCount' = RequestCount
              /\ streams' = streams
              /\ Limited(req.entry) /\ RequestCount[req.entry] = Admitted(req.entry)
         /\ (Answered(502) /\ req.at = "handleRequest_OpenStream") =>
              /\ RequestCount' = RequestCount
              /\ streams' = streams
              /\ RequestCount[req.entry] > streams[req.entry]
       ]_vars

\* server.go 498-577: handleHijackedRequest hands a request with Upgrade:
\* websocket to handleWebSocketPassthrough, which hijacks the connection,
\* writes the request and the buffered bytes to the stream and copies both
\* ways.  Nothing in the repository calls handleHijackedRequest, so no step
\* of handleRequest leads here.
handleHijackedRequest ==
  /\ req.at = "handleHijackedRequest"
  /\ req' = [req EXCEPT !.at = "done",
                        !.via = IF req.Upgrade = "websocket" THEN "Hijack"
                                ELSE "ReadResponse"]
  /\ UNCHANGED <<hubVars, config, RequestCount, RateLimiter, streams, now>>

\* C21 as stated: a request that asks for a WebSocket upgrade and got its
\* stream is handled by hijacking the connection and copying both ways,
\* not by parsing one response.
C21_UpgradeIsHijacked ==
  (req.Upgrade = "websocket" /\ req.via # "") => req.via = "Hijack"

\* the second request for abc was answered 429 after the first was counted
\* and got its stream
C19_Witness ==
  /\ req.status = 429
  /\ req.served = 2
  /\ RequestCount[2] = 1
  /\ streams[2] = 1

\* ------------------------------------------------- the rate limit alone
\* A burst of requests for the tunnel abc arrives with no time elapsed, one
\* more than the limit admits; then time passes, in seconds, and one more
\* request arrives.  The limits are 0, 20 and 60 requests per minute.
MaxTime == 3
RateLimits == {0, 20, 60}

RateInit ==
  /\ Established(HsOneHTTP)
  /\ \E N \in RateLimits :
       Serving([RoutingMode |-> "subdomain", BaseDomain |-> <<"b">>,
                RateLimit |-> N])

RateArrive ==
  /\ req.at \in {"idle", "done"}
  /\ req.served <= config.RateLimit + 1
  /\ req' = [NoRequest EXCEPT !.at = "handleRequest",
                              !.Host = IdAbc \o <<".", "b">>,
                              !.served = req.served + 1]
  /\ UNCHANGED <<hubVars, config, RequestCount, RateLimiter, streams, now>>

\* a second passes once the burst has been answered
RateTick ==
  /\ req.at = "done"
  /\ req.served > config.RateLimit
  /\ now < MaxTime
  /\ now' = now + 1
  /\ UNCHANGED <<hubVars, config, req, RequestCount, RateLimiter, streams>>

RateNext ==
  \/ RateArrive
  \/ RateTick
  \/ handleRequest
  \/ handleRequest_Get
  \/ handleRequest_Allow
  \/ handleRequest_Add
  \/ handleRequest_OpenStream
  \/ handleRequest_Write

SpecRate == RateInit /\ [][RateNext]_vars

\* the limiter's verdict on the request being handled
Consulted == req.at = "handleRequest_Allow" /\ req'.at # req.at
Admits == req'.at = "handleRequest_Add"
Refuses == req'.at = "done" /\ req'.status = 429
\* whole seconds in one refill interval of a limit of N per minute
RefillInterval(N) == CHOOSE t \in 1 .. 60 : t * N >= 60 /\ (t - 1) * N < 60

\* C20: with a limit of N > 0 per minute the first N requests of a burst are
\* admitted and request N + 1 is answered 429; the request after it is
\* admitted once one refill interval (60 / N seconds) has passed since the
\* burst, and refused before; with a limit of 0 every request is admitted.
C20_BurstThenRefill ==
  [][ Consulted =>
        LET N == config.RateLimit
        IN  /\ N = 0 => Admits
            /\ (N > 0 /\ req.served <= N) => (now = 0 /\ Admits)
            /\ (N > 0 /\ req.served = N + 1 /\ now = 0) => Refuses
            /\ (N > 0 /\ req.served = N + 2) =>
                 /\ now >= RefillInterval(N) => Admits
                 /\ now < RefillInterval(N) => Refuses
    ]_vars

\* under a limit of 60, request 62 was admitted one second after the burst
C20_Witness ==
  /\ config.RateLimit = 60
  /\ req.served = 62
  /\ now = 1
  /\ req.at = "handleRequest_Add"
  /\ RequestCount[2] = 60

\* ------------------------------------------------------- Server.Shutdown
\* everything but the position of Server.Shutdown
shutdownRest ==
  <<regVars, sessVars, procVars, closeVars, log, wg, tpc, closeMu, config, req,
    RequestCount, RateLimiter, streams, now, client, bridge, ws>>

\* server.go 125, 148: ListenAndServe accepts connections until
\* httpServer.Shutdown closes its listener
ListenAndServe(p) ==
  /\ shutdown = "off"
  /\ HubConnect(p)

\* a handler the HTTP server still tracks: it has started and has not taken
\* its connection over (the WebSocket upgrade hijacks the connection)
Tracked(p) ==
  /\ pc[p] \notin {"idle", "off", "done"}
  /\ status[p] # StatusSwitchingProtocols

\* server.go 143-148: CloseAll has returned; httpServer.Shutdown is called
\* with a context of ten seconds and closes the listener
Shutdown_httpServer ==
  /\ shutdown = "off"
  /\ closeAlls = 1
  /\ cpc.at = "off"
  /\ shutdown' = "httpServer.Shutdown"
  /\ UNCHANGED shutdownRest

\* server.go 150-152: httpServer.Shutdown waits for the handlers it tracks,
\* hijacked connections excepted; when the context expires first it returns
\* an error and Shutdown returns it without waiting for the wait group
Shutdown_httpServer_done ==
  /\ shutdown = "httpServer.Shutdown"
  /\ IF \E p \in Procs : Tracked(p)
     THEN shutdown' = "failed"
     ELSE shutdown' = "wg.Wait"
  /\ UNCHANGED shutdownRest

\* server.go 154-156: wg.Wait() returns when the counter is zero
Shutdown_Wait ==
  /\ shutdown = "wg.Wait"
  /\ wg = 0
  /\ shutdown' = "returned"
  /\ UNCHANGED shutdownRest

\* the steps of a Shutdown call that has started
ShutdownStep ==
  \/ CloseAllStep
  \/ Shutdown_httpServer
  \/ Shutdown_httpServer_done
  \/ Shutdown_Wait

ShutdownNext ==
  \/ \E p \in Procs : ListenAndServe(p) \/ HubStep(p)
  \/ Shutdown
  \/ ShutdownStep

\* a hub taking handshakes until it is shut down; agents stay connected
SpecShutdown == Init /\ [][ShutdownNext]_vars

\* goroutines that can run do run; handshakes arrive or not, and Shutdown is
\* called or not
FairSpecShutdown ==
  /\ Init
  /\ [][ShutdownNext]_vars
  /\ \A p \in Procs : WF_vars(HubStep(p))
  /\ WF_vars(ShutdownStep)

ShutdownStarted == closeAlls > 0 \/ cpc.at # "off"
ShutdownReturned == shutdown \in {"returned", "failed"}

\* connection p's session was registered: its lifecycle goroutine has started
EverRegistered(p) ==
  \/ pc[p] \in {"lifecycle", "lifecycle_wait", "lifecycle_done"}
  \/ rpc[p] = "lifecycle_done"

\* C22 as stated: once Shutdown has returned, every session that was ever
\* registered is closed and the registry is empty
C22_ShutdownLeavesNothing ==
  ShutdownReturned =>
    /\ sessions = {}
    /\ \A p \in Procs : EverRegistered(p) => closed[p]

\* C23 as stated: a Shutdown that has started eventually returns
C23_ShutdownReturns == ShutdownStarted ~> ShutdownReturned

\* ------------------------------------------------- the agent: Client.Connect
\* everything but the agent
clientRest ==
  <<regVars, sessVars, procVars, closeVars, log, wg, tpc, closeMu, config, req,
    RequestCount, RateLimiter, streams, now, shutdown, bridge, ws>>

\* protocol.go 26, 29, in seconds
MaxReconnectDelay == 30
InitialReconnectDelay == 1

\* dials one Connect call makes
MaxDials == 8

StatusNotFound == 404
StatusBadGateway == 502

\* what a failed dial reports: no response at all (0: the transport failed),
\* or the status of the hub's answer to the upgrade request
DialFailures ==
  {0, StatusUnauthorized, StatusConflict, StatusBadRequest,
   StatusServiceUnavailable, StatusNotFound, StatusInternalServerError,
   StatusBadGateway}

\* the delay never grows
Backoff_NoCap(delay) == delay * 2

\* client.go 224-227
Backoff(delay) ==
  IF delay * 2 > MaxReconnectDelay THEN MaxReconnectDelay ELSE delay * 2

\* client.go 149-192: Connect builds the URL and the dialer
Connect ==
  /\ client.at = "off"
  /\ client' = [client EXCEPT !.at = "Connect_Dial",
                              !.delay = InitialReconnectDelay]
  /\ UNCHANGED clientRest

\* client.go 194-200: one dial; a success leaves the loop
Connect_Dial ==
  /\ client.at = "Connect_Dial"
  /\ client.dials < MaxDials
  /\ \/ client' = [client EXCEPT !.at = "Connect_session",
                                 !.dials = @ + 1,
                                 !.resp = StatusSwitchingProtocols]
     \/ \E r \in DialFailures :
          client' = [client EXCEPT !.at = "Connect_failed",
                                   !.dials = @ + 1,
                                   !.resp = r]
  /\ UNCHANGED clientRest

\* client.go 202-215: four statuses of the hub's answer end Connect
Connect_failed ==
  /\ client.at = "Connect_failed"
  /\ client' =
       IF client.resp = StatusUnauthorized
       THEN [client EXCEPT !.at = "returned", !.err = "authentication failed"]
       ELSE IF client.resp = StatusConflict
       THEN [client EXCEPT !.at = "returned", !.err = "already in use"]
       ELSE IF client.resp = StatusBadRequest
       THEN [client EXCEPT !.at = "returned", !.err = "invalid subdomain"]
       ELSE IF client.resp = StatusServiceUnavailable
       THEN [client EXCEPT !.at = "returned", !.err = "no available TCP ports"]
       ELSE [client EXCEPT !.at = "Connect_select"]
  /\ UNCHANGED clientRest

\* the timer ends the wait though the context is done
Connect_select_TimerWins ==
  /\ client.at = "Connect_select"
  /\ \/ /\ client.ctxDone
        /\ client' = [client EXCEPT !.at = "returned", !.err = "ctx.Err"]
     \/ client' = [client EXCEPT !.at = "Connect_Dial",
                                 !.waits = Append(@, client.delay),
                                 !.delay = Backoff(client.delay)]
  /\ UNCHANGED clientRest

\* client.go 217-227: the select waits for the context and for a timer of
\* delay (1 s at least) made as the select is entered.  A context that is
\* done by then, or that is cancelled during the wait, is the one case that
\* is ready, and Connect returns ctx.Err(); else the timer ends the wait and
\* the delay is doubled up to the maximum.
Connect_select ==
  /\ client.at = "Connect_select"
  /\ \/ /\ client.ctxDone
        /\ client' = [client EXCEPT !.at = "returned", !.err = "ctx.Err"]
     \/ /\ ~client.ctxDone
        /\ client' = [client EXCEPT !.at = "Connect_Dial",
                                    !.waits = Append(@, client.delay),
                                    !.delay = Backoff(client.delay)]
  /\ UNCHANGED clientRest

\* the caller cancels the context given to Connect
Cancel ==
  /\ client.at # "off"
  /\ ~client.ctxDone
  /\ client' = [client EXCEPT !.ctxDone = TRUE]
  /\ UNCHANGED clientRest

ConnectNext ==
  \/ Connect
  \/ Connect_Dial
  \/ Connect_failed
  \/ Connect_select
  \/ Cancel

SpecConnect == Init /\ [][ConnectNext]_vars

FatalStatuses ==
  {StatusUnauthorized, StatusConflict, StatusBadRequest,
   StatusServiceUnavailable}

\* the i-th delay of the sequence 1, 2, 4, 8, 16, 30, 30, ...
DelaySequence(i) == IF i <= 5 THEN 2 ^ (i - 1) ELSE MaxReconnectDelay

\* C24: a failed dial answered 401, 409, 400 or 503 makes Connect return an
\* error, and nothing is dialled after Connect has returned; any other failed
\* dial is followed by a wait; the waits are 1, 2, 4, 8, 16, 30, 30, ...
\* seconds, one before each dial but the first, none longer than 30 s
C24_FatalOrBackoff ==
  /\ [][/\ (/\ client.at = "Connect_failed"
            /\ client'.at # client.at
            /\ client.resp \in FatalStatuses) =>
             (client'.at = "returned" /\ client'.err # "")
        /\ (/\ client.at = "Connect_failed"
            /\ client'.at # client.at
            /\ client.resp \notin FatalStatuses) =>
             client'.at = "Connect_select"
        /\ client.at = "returned" => client'.dials = client.dials
        /\ client'.dials > client.dials =>
             Len(client.waits) = client.dials]_vars
  /\ [](\A i \in DOMAIN client.waits :
          /\ client.waits[i] = DelaySequence(i)
          /\ client.waits[i] <= MaxReconnectDelay)

\* seven failed dials were retried, and a fatal answer ended an eighth
C24_Witness ==
  /\ Len(client.waits) = 7
  /\ client.waits[6] = MaxReconnectDelay
  /\ client.waits[7] = MaxReconnectDelay
  /\ client.at = "returned"
  /\ client.resp = StatusConflict
  /\ client.dials = MaxDials

\* ----------------------------------------------------- the agent: Client.Run
\* client.go 237-274: the dial succeeded; Connect builds the session, stores
\* it and returns nil
Connect_session ==
  /\ client.at = "Connect_session"
  /\ client' = [client EXCEPT !.at = "connected"]
  /\ UNCHANGED clientRest

\* client.go 629-633
trackConn(cl, c) == [cl EXCEPT !.activeConns = @ \cup {c}]

\* client.go 636-640
untrackConn(cl, c) == [cl EXCEPT !.activeConns = @ \ {c}]

\* client.go 643-651: every tracked connection is closed, the set is emptied
closeAllConns(cl) ==
  [cl EXCEPT !.conns = [c \in ClientConns |->
                          IF c \in cl.activeConns THEN "closed" ELSE @[c]],
             !.activeConns = {}]

\* the multiplexer ends every open stream of a session that is closed or
\* has lost its connection
StreamsEnded(cl) ==
  [cl EXCEPT !.conns = [c \in ClientConns |->
                          IF c <= NumWorkers /\ @[c] = "open" THEN "closed"
                          ELSE @[c]]]

\* client.go 277-288: Run starts the heartbeat goroutine
Run ==
  /\ client.at = "connected"
  /\ client' = [client EXCEPT !.at = "Run_AcceptStream",
                              !.wg = @ + 1,
                              !.heartbeat = "running"]
  /\ UNCHANGED clientRest

\* client.go 294-296, 310-315; transport.go 195-206: AcceptStream fails for a
\* closed session and for one whose connection is gone; else it blocks until
\* the hub opens a stream, and a worker is started for it
Run_AcceptStream ==
  /\ client.at = "Run_AcceptStream"
  /\ IF client.closed \/ client.broken
     THEN client' = [client EXCEPT !.at = "Run_err"]
     ELSE \E w \in Workers :
            /\ client.worker[w].at = "off"
            /\ \A v \in Workers : v < w => client.worker[v].at # "off"
            /\ client' = [client EXCEPT !.wg = @ + 1,
                                        !.conns[StreamOf(w)] = "open",
                                        !.worker[w].at = "handleStream"]
  /\ UNCHANGED clientRest

\* the break under <-c.ctx.Done() taken to leave the loop
Run_err_CtxBreak ==
  /\ client.at = "Run_err"
  /\ client' = [client EXCEPT !.at = IF client.closed \/ client.cancelled
                                     THEN "Run_wait"
                                     ELSE "Run_AcceptStream"]
  /\ UNCHANGED clientRest

\* client.go 297-308: the break in the select leaves the select only; the
\* loop ends when IsClosed reports the flag that Session.Close sets
\* (transport.go 234-238), and goes on otherwise
Run_err ==
  /\ client.at = "Run_err"
  /\ client' = [client EXCEPT !.at = IF client.closed THEN "Run_wait"
                                     ELSE "Run_AcceptStream"]
  /\ UNCHANGED clientRest

\* Run returns without the deadline
Run_wait_NoDeadline ==
  /\ client.at = "Run_wait"
  /\ client.wg = 0
  /\ client' = [client EXCEPT !.at = "returned"]
  /\ UNCHANGED clientRest

\* client.go 318-340: Run waits for the wait group, five seconds at most;
\* at the deadline it closes what is tracked; then it returns nil
Run_wait ==
  /\ client.at = "Run_wait"
  /\ \/ /\ client.wg = 0
        /\ client' = [client EXCEPT !.at = "returned"]
     \/ /\ client.wg > 0
        /\ client' = [closeAllConns(client) EXCEPT !.at = "returned"]
  /\ UNCHANGED clientRest

\* client.go 605-626: the heartbeat goroutine ends with the agent's context,
\* or at a tick that finds the session closed
heartbeat ==
  /\ client.heartbeat = "running"
  /\ client.cancelled \/ client.closed
  /\ client' = [client EXCEPT !.heartbeat = "done", !.wg = @ - 1]
  /\ UNCHANGED clientRest

\* the hub closes the session, or the network loses the connection
SessionBroken ==
  /\ client.at \in {"Run_AcceptStream", "Run_err"}
  /\ ~client.broken
  /\ ~client.closed
  /\ client' = [StreamsEnded(client) EXCEPT !.broken = TRUE]
  /\ UNCHANGED clientRest

\* -------------------------------------------- the agent: HTTP basic auth
\* the base64 alphabet of encoding/base64's StdEncoding; the character at
\* index i stands for the six bits i - 1
encodeStd ==
  <<"A", "B", "C", "D", "E", "F", "G", "H", "I", "J", "K", "L", "M", "N", "O",
    "P", "Q", "R", "S", "T", "U", "V", "W", "X", "Y", "Z", "a", "b", "c", "d",
    "e", "f", "g", "h", "i", "j", "k", "l", "m", "n", "o", "p", "q", "r", "s",
    "t", "u", "v", "w", "x", "y", "z", "0", "1", "2", "3", "4", "5", "6", "7",
    "8", "9", "+", "/">>

StdPadding == "="

\* the six bits a character stands for, 64 for a character outside the
\* alphabet
Sextet(ch) ==
  IF \E i \in DOMAIN encodeStd : encodeStd[i] = ch
  THEN (CHOOSE i \in DOMAIN encodeStd : encodeStd[i] = ch) - 1
  ELSE 64

\* the bytes of the characters credentials are written with here
ByteOf(ch) ==
  CASE ch = "u" -> 117
    [] ch = "p" -> 112
    [] ch = "a" -> 97
    [] ch = "x" -> 120
    [] ch = ":" -> 58
    [] OTHER -> 63

RECURSIVE Bytes(_)
Bytes(s) == IF s = <<>> THEN <<>> ELSE <<ByteOf(Head(s))>> \o Bytes(Tail(s))

\* base64.StdEncoding.EncodeToString: three bytes make four characters; one
\* or two last bytes make two or three characters and padding
RECURSIVE EncodeToString(_)
EncodeToString(b) ==
  IF b = <<>> THEN <<>>
  ELSE IF Len(b) = 1
  THEN <<encodeStd[(b[1] \div 4) + 1], encodeStd[((b[1] % 4) * 16) + 1],
         StdPadding, StdPadding>>
  ELSE IF Len(b) = 2
  THEN <<encodeStd[(b[1] \div 4) + 1],
         encodeStd[((b[1] % 4) * 16 + b[2] \div 16) + 1],
         encodeStd[((b[2] % 16) * 4) + 1], StdPadding>>
  ELSE <<encodeStd[(b[1] \div 4) + 1],
         encodeStd[((b[1] % 4) * 16 + b[2] \div 16) + 1],
         encodeStd[((b[2] % 16) * 4 + b[3] \div 64) + 1],
         encodeStd[(b[3] % 64) + 1]>>
       \o EncodeToString(SubSeq(b, 4, Len(b)))

\* base64.StdEncoding.DecodeString: the input is read four characters at a
\* time; padding may end the last four only; anything else is corrupt input
RECURSIVE DecodeString(_)
DecodeString(s) ==
  IF s = <<>> THEN [err |-> FALSE, bytes |-> <<>>]
  ELSE IF Len(s) < 4 THEN [err |-> TRUE, bytes |-> <<>>]
  ELSE
    LET a == Sextet(s[1])
        b == Sextet(s[2])
        c == Sextet(s[3])
        d == Sextet(s[4])
        last == Len(s) = 4
        rest == DecodeString(SubSeq(s, 5, Len(s)))
    IN  IF a = 64 \/ b = 64 THEN [err |-> TRUE, bytes |-> <<>>]
        ELSE IF s[3] = StdPadding
        THEN IF last /\ s[4] = StdPadding
             THEN [err |-> FALSE, bytes |-> <<a * 4 + b \div 16>>]
             ELSE [err |-> TRUE, bytes |-> <<>>]
        ELSE IF c = 64 THEN [err |-> TRUE, bytes |-> <<>>]
        ELSE IF s[4] = StdPadding
        THEN IF last
             THEN [err |-> FALSE,
                   bytes |-> <<a * 4 + b \div 16, (b % 16) * 16 + c \div 4>>]
             ELSE [err |-> TRUE, bytes |-> <<>>]
        ELSE IF d = 64 \/ rest.err THEN [err |-> TRUE, bytes |-> <<>>]
        ELSE [err |-> FALSE,
              bytes |-> <<a * 4 + b \div 16, (b % 16) * 16 + c \div 4,
                          (c % 4) * 64 + d>> \o rest.bytes]

BasicPrefix == <<"B", "a", "s", "i", "c", " ">>

\* the scheme is checked, the credentials are not
validateBasicAuth_SchemeOnly(Authorization, BasicAuth) ==
  HasPrefix(Authorization, BasicPrefix)

\* client.go 569-586
validateBasicAuth(Authorization, BasicAuth) ==
  IF Authorization = <<>> THEN FALSE
  ELSE IF ~HasPrefix(Authorization, BasicPrefix) THEN FALSE
  ELSE LET decoded == DecodeString(TrimPrefix(Authorization, BasicPrefix))
       IN  IF decoded.err THEN FALSE
           ELSE decoded.bytes = Bytes(BasicAuth)

\* -------------------------------------------- the agent: handleStream
\* what a worker has written to its stream, if the stream still takes it
Sent(cl, w, response) ==
  IF cl.conns[StreamOf(w)] = "open"
  THEN [cl EXCEPT !.worker[w].sent = Append(@, response)]
  ELSE cl

\* the deferred calls of handleStream, last registered first (client.go 417,
\* 413, 350, 346, 345)
Deferred(cl, w) ==
  LET mine == IF cl.worker[w].dialed THEN {StreamOf(w), LocalConnOf(w)}
              ELSE {StreamOf(w)}
  IN  [cl EXCEPT !.activeConns = @ \ mine,
                 !.conns = [c \in ClientConns |->
                              IF c \in mine THEN "closed" ELSE @[c]],
                 !.wg = @ - 1,
                 !.worker[w].at = "done"]

\* client.go 344-350
handleStream(w) ==
  /\ client.worker[w].at = "handleStream"
  /\ client' = [trackConn(client, StreamOf(w)) EXCEPT
                  !.worker[w].at = "handleStream_ctx"]
  /\ UNCHANGED clientRest

\* client.go 354-359
handleStream_ctx(w) ==
  /\ client.worker[w].at = "handleStream_ctx"
  /\ client' = IF client.cancelled THEN Deferred(client, w)
               ELSE [client EXCEPT !.worker[w].at = "handleStream_ReadRequest"]
  /\ UNCHANGED clientRest

\* the hub writes a request to the stream (server.go 468-472): its head,
\* then the bytes of its body, which wait on the stream to be read
RequestWithBody(w, Authorization, Host, Body) ==
  /\ client.worker[w].at \in
       {"handleStream", "handleStream_ctx", "handleStream_ReadRequest"}
  /\ ~client.worker[w].data
  /\ client.conns[StreamOf(w)] = "open"
  /\ client' = [client EXCEPT !.worker[w].data = TRUE,
                              !.worker[w].Authorization = Authorization,
                              !.worker[w].Host = Host,
                              !.worker[w].Body = Body,
                              !.worker[w].stream = Body]
  /\ UNCHANGED clientRest

\* a request without a body
RequestArrives(w, Authorization, Host) ==
  RequestWithBody(w, Authorization, Host, <<>>)

\* client.go 361-373: ReadRequest returns the request, or fails on a stream
\* that was closed. The bufio.Reader filled its buffer with what the stream
\* held: the head and, after it, none, some or all of the body's bytes;
\* req.Body reads the body from that reader.
handleStream_ReadRequest(w) ==
  /\ client.worker[w].at = "handleStream_ReadRequest"
  /\ \/ /\ client.worker[w].data
        /\ \E k \in 0 .. Len(client.worker[w].stream) :
             client' = [client EXCEPT
               !.worker[w].at = "handleStream_BasicAuth",
               !.worker[w].buffered = SubSeq(client.worker[w].stream, 1, k),
               !.worker[w].stream =
                  SubSeq(client.worker[w].stream, k + 1,
                         Len(client.worker[w].stream))]
     \/ /\ client.conns[StreamOf(w)] = "closed"
        /\ client' = Deferred(client, w)
  /\ UNCHANGED clientRest

Unauthorized == [StatusCode |-> StatusUnauthorized, challenge |-> TRUE]
BadGateway == [StatusCode |-> StatusBadGateway, challenge |-> FALSE]
Relayed == [StatusCode |-> 200, challenge |-> FALSE]

\* client.go 380-386, 589-602: with credentials configured, a request that
\* does not carry them is answered 401 with the challenge
\* WWW-Authenticate: Basic realm="Exio Tunnel", and the worker returns
handleStream_BasicAuth(w) ==
  /\ client.worker[w].at = "handleStream_BasicAuth"
  /\ client' =
       IF /\ client.config.BasicAuth # <<>>
          /\ ~validateBasicAuth(client.worker[w].Authorization,
                                client.config.BasicAuth)
       THEN Deferred(Sent(client, w, Unauthorized), w)
       ELSE [client EXCEPT !.worker[w].at = "handleStream_RewriteHost"]
  /\ UNCHANGED clientRest

\* the decimal digits of a number
DigitChars == <<"0", "1", "2", "3", "4", "5", "6", "7", "8", "9">>

\* protocol.go 106-131, and what fmt's %d writes, for a number that is not
\* negative
RECURSIVE itoa(_)
itoa(i) ==
  IF i < 10 THEN <<DigitChars[i + 1]>>
  ELSE itoa(i \div 10) \o <<DigitChars[(i % 10) + 1]>>

\* protocol.go 96-103: Host is 127.0.0.1, with the port unless it is 80;
\* nothing but the package's test calls this function
RewriteHostHeader(targetPort) ==
  IF targetPort # 80 THEN LocalHost \o <<":">> \o itoa(targetPort)
  ELSE LocalHost

\* the headers of the request the worker forwards
Forwarded(Host, XForwardedHost, XForwardedProto) ==
  [Host |-> Host, XForwardedHost |-> XForwardedHost,
   XForwardedProto |-> XForwardedProto]

\* client.go 388-397: fmt.Sprintf("%s:%d", LocalHost, LocalPort) when
\* RewriteHost is set; the X-Forwarded headers in every case
handleStream_RewriteHost(w) ==
  /\ client.worker[w].at = "handleStream_RewriteHost"
  /\ LET originalHost == client.worker[w].Host
         Host == IF client.config.RewriteHost
                 THEN client.config.LocalHost \o <<":">>
                        \o itoa(client.config.LocalPort)
                 ELSE originalHost
     IN  client' = [client EXCEPT
                      !.worker[w].at = "handleStream_Dial",
                      !.worker[w].out = Forwarded(Host, originalHost, "https")]
  /\ UNCHANGED clientRest

\* client.go 399-413: the dial is bound to the agent's context; a local
\* service that does not answer the dial gets the hub a 502
handleStream_Dial(w) ==
  /\ client.worker[w].at = "handleStream_Dial"
  /\ IF client.cancelled
     THEN client' = Deferred(client, w)
     ELSE \/ client' = [client EXCEPT
                          !.worker[w].at = "handleStream_trackConn",
                          !.worker[w].dialed = TRUE,
                          !.conns[LocalConnOf(w)] = "open"]
          \/ client' = Deferred(Sent(client, w, BadGateway), w)
  /\ UNCHANGED clientRest

\* client.go 415-417
handleStream_trackConn(w) ==
  /\ client.worker[w].at = "handleStream_trackConn"
  /\ client' = [trackConn(client, LocalConnOf(w)) EXCEPT
                  !.worker[w].at = "handleStream_Buffered"]
  /\ UNCHANGED clientRest

\* the buffered bytes are left in the reader
handleStream_Buffered_Kept(w) ==
  /\ client.worker[w].at = "handleStream_Buffered"
  /\ client' = [client EXCEPT !.worker[w].at = "handleStream_Write"]
  /\ UNCHANGED clientRest

\* client.go 419-427: when the reader holds buffered bytes they are read
\* into buf, and buf is not used again
handleStream_Buffered(w) ==
  /\ client.worker[w].at = "handleStream_Buffered"
  /\ client' = [client EXCEPT !.worker[w].at = "handleStream_Write",
                              !.worker[w].buffered = <<>>]
  /\ UNCHANGED clientRest

\* a failed read or write after the dial: silent once the agent's context is
\* cancelled, a 502 on the stream otherwise (client.go 431-440, 444-452)
Failed(cl, w) ==
  IF cl.cancelled THEN Deferred(cl, w)
  ELSE Deferred(Sent(cl, w, BadGateway), w)

\* client.go 429-441: req.Write writes the head and then copies
\* Content-Length bytes of req.Body, which reads what the reader holds and
\* then the stream; short of that many bytes the copy waits for the stream,
\* and fails when the stream is closed
handleStream_Write(w) ==
  /\ client.worker[w].at = "handleStream_Write"
  /\ LET wk == client.worker[w]
         body == wk.buffered \o wk.stream
     IN  \/ /\ client.conns[LocalConnOf(w)] = "closed"
            /\ client' = Failed(client, w)
         \/ /\ client.conns[LocalConnOf(w)] # "closed"
            /\ Len(body) = Len(wk.Body)
            /\ client' = [client EXCEPT
                            !.worker[w].at = "handleStream_ReadResponse",
                            !.worker[w].wrote = body,
                            !.worker[w].buffered = <<>>,
                            !.worker[w].stream = <<>>]
         \/ /\ client.conns[LocalConnOf(w)] # "closed"
            /\ Len(body) < Len(wk.Body)
            /\ client.conns[StreamOf(w)] = "closed"
            /\ client' = Failed(client, w)
  /\ UNCHANGED clientRest

\* the local service answers the request
LocalResponds(w) ==
  /\ client.worker[w].at = "handleStream_ReadResponse"
  /\ ~client.worker[w].answered
  /\ client.conns[LocalConnOf(w)] = "open"
  /\ client' = [client EXCEPT !.worker[w].answered = TRUE]
  /\ UNCHANGED clientRest

\* client.go 443-468: ReadResponse blocks until the local service answers
\* or the connection is closed; the answer is written back to the stream
handleStream_ReadResponse(w) ==
  /\ client.worker[w].at = "handleStream_ReadResponse"
  /\ \/ /\ client.worker[w].answered
        /\ client' = Deferred(Sent(client, w, Relayed), w)
     \/ /\ client.conns[LocalConnOf(w)] = "closed"
        /\ client' = Failed(client, w)
  /\ UNCHANGED clientRest

\* the steps of worker w
WorkerStep(w) ==
  \/ handleStream(w)
  \/ handleStream_ctx(w)
  \/ handleStream_ReadRequest(w)
  \/ handleStream_BasicAuth(w)
  \/ handleStream_RewriteHost(w)
  \/ handleStream_Dial(w)
  \/ handleStream_trackConn(w)
  \/ handleStream_Buffered(w)
  \/ handleStream_Write(w)
  \/ handleStream_ReadResponse(w)

\* ---------------------------------------------------- the agent: Close
\* client.go 654-655: Close cancels the agent's context
Close_cancel ==
  /\ client.at \in {"Run_AcceptStream", "Run_err"}
  /\ client.close = "off"
  /\ client' = [client EXCEPT !.close = "closeAllConns", !.cancelled = TRUE]
  /\ UNCHANGED clientRest

\* client.go 657-658
Close_closeAllConns ==
  /\ client.close = "closeAllConns"
  /\ client' = [closeAllConns(client) EXCEPT !.close = "session.Close"]
  /\ UNCHANGED clientRest

\* client.go 660-668, transport.go 209-231: the session is closed, its
\* closed flag set, its streams ended
Close_session ==
  /\ client.close = "session.Close"
  /\ client' = [StreamsEnded(client) EXCEPT !.close = "done", !.closed = TRUE]
  /\ UNCHANGED clientRest

CloseStep == Close_closeAllConns \/ Close_session

\* the steps of Run that wait for nothing but the scheduler
RunStep ==
  \/ Run
  \/ (Run_AcceptStream /\ (client.closed \/ client.broken))
  \/ Run_err
  \/ Run_wait

PlainRequest(w) == RequestArrives(w, <<>>, <<"a", ".", "b">>)

RunNext ==
  \/ Run
  \/ Run_AcceptStream
  \/ Run_err
  \/ Run_wait
  \/ heartbeat
  \/ SessionBroken
  \/ Close_cancel
  \/ CloseStep
  \/ \E w \in Workers : PlainRequest(w) \/ LocalResponds(w) \/ WorkerStep(w)

\* client.go 237-274: Connect has returned nil; the agent holds a session
Connected ==
  /\ NewSessionRegistry
  /\ InitRest
  /\ pc = [p \in Procs |-> "off"]
  /\ call = [p \in Procs |-> ""]
  /\ arg = [p \in Procs |-> <<>>]
  /\ config = [RoutingMode |-> "path", BaseDomain |-> <<>>, RateLimit |-> 0]
  /\ req = NoRequest
  /\ RequestCount = [o \in Objs |-> 0]
  /\ RateLimiter = [o \in Objs |-> NoLimiter]
  /\ streams = [o \in Objs |-> 0]
  /\ now = 0
  /\ shutdown = "off"

RunInit ==
  /\ Connected
  /\ client = [NoClient EXCEPT !.at = "connected"]

SpecRun == RunInit /\ [][RunNext]_vars

\* goroutines that can run do run; streams, requests and answers of the
\* local service arrive or not; the session breaks or not; Close is called
\* or not
FairSpecRun ==
  /\ RunInit
  /\ [][RunNext]_vars
  /\ WF_vars(RunStep)
  /\ WF_vars(heartbeat)
  /\ WF_vars(CloseStep)
  /\ \A w \in Workers : WF_vars(WorkerStep(w))

\* C25 as stated: once the session is broken, Run returns, though the agent
\* never calls Close
C25_BrokenSessionEndsRun ==
  (client.broken /\ client.close = "off") ~>
    (client.at = "returned" \/ client.close # "off")

\* Run has returned at the deadline: the wait group was not at zero
AtDeadline == client.at = "Run_wait" /\ client'.at = "returned" /\ client.wg > 0

WorkersExited == \A w \in Workers : client.worker[w].at \in {"off", "done"}

\* C26: once Close is called Run returns; it returns with the wait group at
\* zero, or at the deadline after closing every connection and stream of the
\* active set; when Run has returned and no worker is left, none of the
\* workers' streams and local connections is open
C26_CloseEndsRun ==
  /\ (client.close # "off") ~> (client.at = "returned")
  /\ [][AtDeadline =>
          /\ \A c \in client.activeConns : client'.conns[c] = "closed"
          /\ client'.activeConns = {}]_vars
  /\ []((client.at = "returned" /\ WorkersExited) =>
          \A c \in ClientConns : client.conns[c] # "open")

\* Close was called with a worker waiting for the local service; Run has
\* returned at the deadline, which closed that worker's local connection
C26_Witness ==
  /\ client.at = "returned"
  /\ client.close = "done"
  /\ client.wg > 0
  /\ \E w \in Workers :
       /\ client.worker[w].at = "handleStream_ReadResponse"
       /\ client.conns[LocalConnOf(w)] = "closed"
       /\ client.conns[StreamOf(w)] = "closed"

\* ------------------------------------ the agent's workers and basic auth
\* user:pass pairs
Credentials == {<<"u", ":", "p">>, <<"a", ":">>, <<"u", ":", "p", "x">>}

Encoded(cred) == EncodeToString(Bytes(cred))

\* Authorization headers: none; each pair under the Basic scheme, under
\* another scheme, and without the scheme; text that is not base64 (a
\* character outside the alphabet, a length that is not a multiple of four,
\* the padding left out)
AuthorizationHeaders ==
  {<<>>}
    \cup {BasicPrefix \o Encoded(cred) : cred \in Credentials}
    \cup {BearerPrefix \o Encoded(<<"u", ":", "p">>), Encoded(<<"u", ":", "p">>)}
    \cup {BasicPrefix \o <<"d", "T", "!", "w">>, BasicPrefix \o <<"d", "T", "p">>,
          BasicPrefix \o <<"Y", "T", "o">>}

BasicAuthInit ==
  /\ Connected
  /\ \E cred \in {<<>>, <<"u", ":", "p">>, <<"a", ":">>} :
       client = [NoClient EXCEPT !.at = "connected", !.config.BasicAuth = cred]

BasicAuthRequest(w) ==
  \E h \in AuthorizationHeaders : RequestArrives(w, h, <<"a", ".", "b">>)

BasicAuthNext ==
  \/ Run
  \/ Run_AcceptStream
  \/ \E w \in Workers : BasicAuthRequest(w) \/ LocalResponds(w) \/ WorkerStep(w)

SpecBasicAuth == BasicAuthInit /\ [][BasicAuthNext]_vars

\* the text after the scheme is not base64 with padding
NotBase64(e) ==
  \/ Len(e) % 4 # 0
  \/ \E i \in DOMAIN e : Sextet(e[i]) = 64 /\ e[i] # StdPadding

\* the header is missing, is not of the Basic scheme, is not base64, or is
\* the encoding of another pair
LacksCredentials(h, cred) ==
  \/ h = <<>>
  \/ ~HasPrefix(h, BasicPrefix)
  \/ NotBase64(TrimPrefix(h, BasicPrefix))
  \/ \E other \in Credentials \ {cred} : h = BasicPrefix \o Encoded(other)

\* worker w has taken its request off the stream
HasRequest(w) ==
  client.worker[w].at \notin
    {"off", "handleStream", "handleStream_ctx", "handleStream_ReadRequest"}

\* C27: with basic auth configured, a request whose Authorization header is
\* missing, not Basic, not base64 or another pair is never dialled for, and
\* once the worker is past the check the stream has got a 401 with the
\* challenge, and nothing else, and is closed
C27_NoCredentialsNoDial ==
  \A w \in Workers :
    (/\ client.config.BasicAuth # <<>>
     /\ client.worker[w].data
     /\ LacksCredentials(client.worker[w].Authorization,
                         client.config.BasicAuth)) =>
       /\ ~client.worker[w].dialed
       /\ client.conns[LocalConnOf(w)] = "none"
       /\ client.worker[w].at \notin
            {"handleStream_RewriteHost", "handleStream_Dial",
             "handleStream_trackConn", "handleStream_Write",
             "handleStream_ReadResponse"}
       /\ (HasRequest(w) /\ client.worker[w].at # "handleStream_BasicAuth") =>
            /\ client.worker[w].at = "done"
            /\ client.worker[w].sent = <<Unauthorized>>
            /\ client.conns[StreamOf(w)] = "closed"

\* one worker has refused the encoding of another pair, the other has
\* relayed the answer to a request with the configured pair
C27_Witness ==
  /\ client.config.BasicAuth = <<"u", ":", "p">>
  /\ client.worker[1].Authorization = BasicPrefix \o Encoded(<<"u", ":", "p", "x">>)
  /\ client.worker[1].sent = <<Unauthorized>>
  /\ client.worker[1].at = "done"
  /\ client.worker[2].Authorization = BasicPrefix \o <<"d", "T", "p", "w">>
  /\ client.worker[2].sent = <<Relayed>>

\* ------------------------------------ the agent's workers and the Host
\* local ports of the agent's configuration
LocalPorts == {80, 3000, 8080}

\* Host headers of the requests the hub relays
RelayedHosts == {<<"a", ".", "b">>, <<"a", ".", "b", ":", "8">>}

RewriteInit ==
  /\ Connected
  /\ \E rw \in BOOLEAN, lp \in LocalPorts :
       client = [NoClient EXCEPT !.at = "connected",
                                 !.config.RewriteHost = rw,
                                 !.config.LocalPort = lp]

RewriteRequest(w) == \E h \in RelayedHosts : RequestArrives(w, <<>>, h)

RewriteNext ==
  \/ Run
  \/ Run_AcceptStream
  \/ \E w \in Workers : RewriteRequest(w) \/ LocalResponds(w) \/ WorkerStep(w)

SpecRewrite == RewriteInit /\ [][RewriteNext]_vars

\* worker w has set the headers of the request it forwards
HeadersSet(w) == client.worker[w].out.XForwardedProto # ""

\* <local-host>:<local-port>, without the port component for port 80
LocalHostAndPort(cfg) ==
  IF cfg.LocalPort = 80 THEN cfg.LocalHost
  ELSE cfg.LocalHost \o <<":">> \o itoa(cfg.LocalPort)

\* C28 as stated: with Host rewriting enabled the forwarded request has Host
\* <local-host>:<local-port>, the port left out when it is 80; in every
\* case X-Forwarded-Host is the Host on arrival and X-Forwarded-Proto is
\* https
C28_HostRewritten ==
  \A w \in Workers :
    HeadersSet(w) =>
      /\ client.config.RewriteHost =>
           client.worker[w].out.Host = LocalHostAndPort(client.config)
      /\ client.worker[w].out.XForwardedHost = client.worker[w].Host
      /\ client.worker[w].out.XForwardedProto = "https"

\* what the code does: the port component is always there
C28_PortAlwaysWritten ==
  \A w \in Workers :
    HeadersSet(w) =>
      /\ client.config.RewriteHost =>
           client.worker[w].out.Host =
             client.config.LocalHost \o <<":">> \o itoa(client.config.LocalPort)
      /\ ~client.config.RewriteHost =>
           client.worker[w].out.Host = client.worker[w].Host
      /\ client.worker[w].out.XForwardedHost = client.worker[w].Host
      /\ client.worker[w].out.XForwardedProto = "https"

\* --------------------------------------------- the port map and Count()
PortsInMap == {t.key : t \in tcpPorts}
PortsHeld == {e.TCPPort : e \in {s \in sessions : s.TCPPort > 0}}

\* connection p is in its handshake, or in the Unregister of its lifecycle
\* goroutine
InFlight(p) ==
  pc[p] \notin {"idle", "off", "done", "lifecycle", "lifecycle_wait"}

HubQuiet == \A p \in Procs : ~InFlight(p)

C30_AsStated == count = Cardinality(sessions) /\ count >= 0

StoredNotCounted == {p \in Procs : pc[p] = "RegisterWithOptions_count"}
DeletedNotCounted == {p \in Procs : pc[p] = "Unregister_count"}

\* C30, amended: in every state Count() is the number of entries, less the
\* Register calls that have stored their entry and not yet added 1, plus the
\* Unregister calls that have deleted theirs and not yet added -1; so it is
\* the number of entries whenever no call is between the two updates, below
\* it or above it otherwise, and can be negative
C30_CountBehindByCallsBetween ==
  count = Cardinality(sessions) - Cardinality(StoredNotCounted)
            + Cardinality(DeletedNotCounted)

\* an entry was stored and deleted again before its Register call added 1:
\* Count() is -1 with an empty registry
C30_Witness ==
  /\ StoredNotCounted # {}
  /\ sessions = {}
  /\ count = -1

\* ------------------------------------ Unregister of a TCP tunnel, raced
\* ids the goroutines pass: the tunnel's id in two casings, and an id
\* that is not registered
UnregIds == {IdB0, <<"B", "-", "0">>, IdAbc}

\* registry.go 34-43, server.go 262-302: a registry that holds one TCP
\* tunnel; goroutines that have called nothing yet
UnregInit ==
  /\ RegistryWithTCPTunnel
  /\ InitRest
  /\ NoRequests
  /\ pc = [p \in Procs |-> "idle"]
  /\ call = [p \in Procs |-> ""]
  /\ arg = [p \in Procs |-> <<>>]

\* a goroutine calls Unregister, or AllocateTCPPort for another tenant
UnregCall(p) ==
  /\ pc[p] = "idle"
  /\ \/ \E a \in UnregIds :
          /\ arg' = [arg EXCEPT ![p] = a]
          /\ Invoke(p, "Unregister", "done")
     \/ /\ arg' = [arg EXCEPT ![p] = IdAbc]
        /\ Invoke(p, "AllocateTCPPort", "done")
  /\ UNCHANGED <<regVars, sessVars, typ, authz, port, lst, res, ent, scan,
                 status, closeVars, others>>

UnregNext ==
  \E p \in Procs :
    \/ UnregCall(p)
    \/ Unregister(p)
    \/ Unregister_count(p)
    \/ Unregister_close(p)
    \/ Unregister_release(p)
    \/ AllocateTCPPort(p)
    \/ AllocateTCPPort_scan(p)

SpecUnreg == UnregInit /\ [][UnregNext]_vars

\* the Unregister calls that found the entry
Removers == {p \in Procs : call[p] = "Unregister" /\ res[p] = "loaded"}

\* the Unregister of p that found the entry has returned
UnregisterReturned(p) == p \in Removers /\ pc[p] = "done"

\* C31: however many goroutines call Unregister for the id of a registered
\* TCP tunnel, one call at most finds the entry; only that call decrements
\* Count(), closes the listener and releases the port, each once; when it
\* has returned the entry is gone, Count() is 0, the listener is closed and
\* the port is out of the map unless AllocateTCPPort gave it to another
\* tenant since
C31_UnregisterOnce ==
  /\ [](Cardinality(Removers) <= 1)
  /\ [](count \in {0, 1})
  /\ [][\A p \in Procs :
          /\ count' # count => (p \in Removers /\ count' = count - 1) \/ pc'[p] = pc[p]
          /\ (listeners' # listeners /\ pc'[p] # pc[p]) =>
               (p \in Removers /\ pc[p] = "Unregister_close")
          /\ (InPortMap(tcpPorts, tcpPortStart)
                /\ ~InPortMap(tcpPorts', tcpPortStart) /\ pc'[p] # pc[p]) =>
               (p \in Removers /\ pc[p] = "Unregister_release")]_vars
  /\ [](\A p \in Procs :
          UnregisterReturned(p) =>
            /\ sessions = {}
            /\ count = 0
            /\ listeners[PreExisting] = "closed"
            /\ \A t \in tcpPorts : t.key = tcpPortStart => t.sub = IdAbc)

\* two goroutines called Unregister for the tunnel, one found it; the
\* port it released was then given to another tenant
C31_Witness ==
  /\ \E p, q \in Procs :
       /\ p # q
       /\ UnregisterReturned(p)
       /\ call[q] = "Unregister" /\ ToLower(arg[q]) = IdB0
       /\ res[q] = "notloaded" /\ pc[q] = "done"
  /\ \E r \in Procs :
       call[r] = "AllocateTCPPort" /\ pc[r] = "done" /\ port[r] = tcpPortStart
  /\ [key |-> tcpPortStart, sub |-> IdAbc] \in tcpPorts

\* ------------------------------------- the routing cookie and the prefix
\* the path the request arrived with
ArrivedPath == IF req.originalPath # <<>> THEN req.originalPath ELSE req.Path

\* handleRequest has settled on a tenant and is about to look its entry up
Routed == req.at = "handleRequest_Get" /\ config.RoutingMode = "path"

\* the tenant handleRequest settled on is the one the path names
ResolvedFromPath ==
  /\ ExtractTunnelIDFromPath(ArrivedPath) # <<>>
  /\ SameId(req.tunnelID, ExtractTunnelIDFromPath(ArrivedPath))

\* C32 as stated: in path mode the cookie is set and the prefix stripped if
\* and only if the tenant was resolved from the path; a request resolved
\* through the cookie or the Referer keeps its path and sets no cookie
C32_CookieIffFromPath ==
  Routed =>
    /\ (req.setCookie # <<>>) <=> ResolvedFromPath
    /\ ResolvedFromPath =>
         req.Path = StripTunnelIDPrefix(ArrivedPath, req.tunnelID)
    /\ ~ResolvedFromPath => req.Path = ArrivedPath

\* ------------------------- handshakes, lookups and requests side by side
\* handshakes for one tenant under two casings, as HTTP and as TCP tunnel
ObserveRequests ==
  { Request(GoodHeader, IdAbc, "http"), Request(GoodHeader, IdABC, "http"),
    Request(GoodHeader, IdAbc, "tcp") }

\* server.go 85-110: a hub in subdomain mode, nothing registered
ObserveInit ==
  /\ NewSessionRegistry
  /\ InitRest
  /\ Serving([RoutingMode |-> "subdomain", BaseDomain |-> <<"b">>,
              RateLimit |-> 0])
  /\ pc = [p \in Procs |-> IF p \in Conns THEN "idle" ELSE "off"]
  /\ call = [p \in Procs |-> ""]
  /\ arg = [p \in Procs |-> <<>>]

\* server.go 99: a /_connect request arrives
ObserveConnect(p) ==
  /\ pc[p] = "idle"
  /\ \E r \in ObserveRequests :
       /\ authz' = [authz EXCEPT ![p] = r.authz]
       /\ arg' = [arg EXCEPT ![p] = r.subdomain]
       /\ typ' = [typ EXCEPT ![p] = r.type]
  /\ pc' = [pc EXCEPT ![p] = "handleConnect"]
  /\ UNCHANGED <<regVars, sessVars, rpc, call, port, lst, res, ent, scan, status,
                 closeVars, others>>

\* server.go 100: a request for the tenant's host arrives
ObserveArrive ==
  /\ req.at \in {"idle", "done"}
  /\ req.served < MaxRequests
  /\ req' = [NoRequest EXCEPT !.at = "handleRequest",
                              !.Host = IdAbc \o <<".", "b">>,
                              !.served = req.served + 1]
  /\ UNCHANGED <<hubVars, config, RequestCount, RateLimiter, streams, now>>

ObserveNext ==
  \/ \E p \in Procs : ObserveConnect(p) \/ HubStep(p)
  \/ ObserveArrive
  \/ handleRequest
  \/ handleRequest_Get
  \/ handleRequest_Allow
  \/ handleRequest_Add
  \/ handleRequest_OpenStream
  \/ handleRequest_Write
  \/ Shutdown
  \/ CloseAllStep

SpecObserve == ObserveInit /\ [][ObserveNext]_vars

\* the Register of connection p has returned success for the id, and the
\* Unregister of its lifecycle goroutine has not been called
RegisteredFor(p, id) ==
  /\ SameId(arg[p], id)
  /\ \/ pc[p] = "handleConnect_registered" /\ res[p] = "nil"
     \/ pc[p] \in {"lifecycle", "lifecycle_wait"}

\* the session the request looked up can open no stream
SessionUnusable(s) == closed[s] \/ muxCloses[s] > 0

\* C33: a Get or an Exists that starts after a Register returned success,
\* and before the Unregister of that entry starts, finds the entry; the
\* request that reaches OpenStream with an entry whose session has been
\* closed since the lookup is answered 502 in that step and opens no stream
C33_RegisterSeenLateOpen502 ==
     [][/\ (/\ req.at = "handleRequest_Get"
            /\ req'.at # req.at
            /\ \E p \in Procs : RegisteredFor(p, req.tunnelID)) =>
             /\ req'.at = "handleRequest_Allow"
             /\ RegisteredFor(req'.entry, req.tunnelID)
        /\ \A q \in Procs :
             (/\ pc[q] = "Exists"
              /\ pc'[q] # pc[q]
              /\ \E p \in Procs : RegisteredFor(p, arg[q])) =>
               res'[q] = "true"
        /\ (/\ req.at = "handleRequest_OpenStream"
            /\ req'.at # req.at
            /\ SessionUnusable(req.entry)) =>
             /\ req'.at = "done"
             /\ req'.status = StatusBadGateway
             /\ streams' = streams]_vars

\* the request found the entry of a session registered before it arrived;
\* the hub closed that session before the stream was opened; the answer
\* was 502
C33_Witness ==
  /\ req.status = StatusBadGateway
  /\ req.entry \in Procs
  /\ streams[req.entry] = 0
  /\ closed[req.entry]
  /\ RequestCount[req.entry] = 1

\* ------------------------------------------------------- TCP bridges
\* server.go 343-370 (bridgeTCPConnection) and client.go 491-551
\* (handleTCPStream): conn is the inbound connection, hubStream and
\* agentStream the two ends of the stream opened for it, localConn the
\* agent's connection to the local service. A connection is "open", "eof"
\* (the peer has closed its end: reads return io.EOF) or "closed" (closed
\* by this program).
bridgeRest ==
  <<regVars, sessVars, procVars, closeVars, log, wg, tpc, closeMu, config, req,
    RequestCount, RateLimiter, streams, now, shutdown, client, ws>>

\* a Read on the connection returns: its peer closed it, or this side did
ReadEnds(c) == c \in {"eof", "closed"}

\* server.go 339: go s.bridgeTCPConnection(conn, session, subdomain)
bridgeTCPConnection_go ==
  /\ bridge.hub = "off"
  /\ bridge' = [bridge EXCEPT !.hub = "bridgeTCPConnection", !.conn = "open"]
  /\ UNCHANGED bridgeRest

\* server.go 344-352: OpenStream, or return (deferred conn.Close) when the
\* session is closed; server.go 355-366: the two copies start. The agent's
\* accept loop hands the stream to handleTCPStream (client.go 311-314).
bridgeTCPConnection ==
  /\ bridge.hub = "bridgeTCPConnection"
  /\ bridge' =
       IF bridge.session = "closed"
       THEN [bridge EXCEPT !.hub = "returned",
                           !.conn = "closed"]
       ELSE [bridge EXCEPT !.hub = "wg.Wait",
                           !.hubStream = "open",
                           !.agentStream = "open",
                           !.hubCopy = [up |-> "io.Copy", down |-> "io.Copy"],
                           !.agent = "handleTCPStream"]
  /\ UNCHANGED bridgeRest

\* server.go 359-362: io.Copy(stream, conn) returns when conn.Read fails
bridge_up ==
  /\ bridge.hubCopy.up = "io.Copy"
  /\ ReadEnds(bridge.conn)
  /\ bridge' = [bridge EXCEPT !.hubCopy.up = "done"]
  /\ UNCHANGED bridgeRest

\* server.go 364-367: io.Copy(conn, stream) returns when stream.Read fails:
\* the agent closed its end, this side closed it, or the session is closed
bridge_down ==
  /\ bridge.hubCopy.down = "io.Copy"
  /\ \/ bridge.agentStream = "closed"
     \/ bridge.hubStream = "closed"
     \/ bridge.session = "closed"
  /\ bridge' = [bridge EXCEPT !.hubCopy.down = "done"]
  /\ UNCHANGED bridgeRest

\* io.Copy returns when a Write fails: bytes arrive from the source while
\* the destination can no longer be written
bridge_WriteFails ==
  /\ \/ /\ bridge.hubCopy.up = "io.Copy"
        /\ bridge.conn = "open"
        /\ bridge.session = "closed"
        /\ bridge' = [bridge EXCEPT !.hubCopy.up = "done"]
     \/ /\ bridge.hubCopy.down = "io.Copy"
        /\ bridge.conn = "eof"
        /\ bridge.agentCopy.down = "io.Copy"
        /\ bridge.localConn = "open"
        /\ bridge' = [bridge EXCEPT !.hubCopy.down = "done"]
     \/ /\ bridge.agentCopy.up = "io.Copy"
        /\ bridge.localConn = "eof"
        /\ bridge.hubCopy.up = "io.Copy"
        /\ bridge.conn = "open"
        /\ bridge' = [bridge EXCEPT !.agentCopy.up = "done"]
     \/ /\ bridge.agentCopy.down = "io.Copy"
        /\ bridge.localConn = "open"
        /\ bridge.session = "closed" \/ bridge.agentStream = "closed"
        /\ bridge' = [bridge EXCEPT !.agentCopy.down = "done"]
  /\ UNCHANGED bridgeRest

\* server.go 369, 344, 352: wg.Wait() returns when both copies are done;
\* then the deferred stream.Close() and conn.Close() run
bridge_Wait ==
  /\ bridge.hub = "wg.Wait"
  /\ bridge.hubCopy = [up |-> "done", down |-> "done"]
  /\ bridge' = [bridge EXCEPT !.hub = "returned",
                              !.hubStream = "closed",
                              !.conn = "closed"]
  /\ UNCHANGED bridgeRest

\* client.go 491-504: the stream is tracked; return if the context is done
handleTCPStream ==
  /\ bridge.agent = "handleTCPStream"
  /\ bridge' = IF bridge.cancelled
               THEN [bridge EXCEPT !.agent = "returned",
                                   !.agentStream = "closed"]
               ELSE [bridge EXCEPT !.agent = "DialContext"]
  /\ UNCHANGED bridgeRest

\* client.go 507-522: the local service is dialed; client.go 531-548: the
\* two copies start
handleTCPStream_Dial ==
  /\ bridge.agent = "DialContext"
  /\ \/ bridge' = [bridge EXCEPT !.agent = "returned",
                                 !.agentStream = "closed"]
     \/ /\ ~bridge.cancelled
        /\ bridge' = [bridge EXCEPT
                        !.agent = "wg.Wait",
                        !.localConn = "open",
                        !.agentCopy = [up |-> "io.Copy", down |-> "io.Copy"]]
  /\ UNCHANGED bridgeRest

\* client.go 535-539: io.Copy(localConn, stream) returns when stream.Read
\* fails
handleTCPStream_up ==
  /\ bridge.agentCopy.up = "io.Copy"
  /\ \/ bridge.hubStream = "closed"
     \/ bridge.agentStream = "closed"
     \/ bridge.session = "closed"
  /\ bridge' = [bridge EXCEPT !.agentCopy.up = "done"]
  /\ UNCHANGED bridgeRest

\* client.go 542-546: io.Copy(stream, localConn) returns when
\* localConn.Read fails
handleTCPStream_down ==
  /\ bridge.agentCopy.down = "io.Copy"
  /\ ReadEnds(bridge.localConn)
  /\ bridge' = [bridge EXCEPT !.agentCopy.down = "done"]
  /\ UNCHANGED bridgeRest

\* client.go 548, 492-497, 523-527: wg.Wait(), then the deferred closes
handleTCPStream_Wait ==
  /\ bridge.agent = "wg.Wait"
  /\ bridge.agentCopy = [up |-> "done", down |-> "done"]
  /\ bridge' = [bridge EXCEPT !.agent = "returned",
                              !.agentStream = "closed",
                              !.localConn = "closed"]
  /\ UNCHANGED bridgeRest

\* the peer of the inbound connection closes it
ConnPeerCloses ==
  /\ bridge.conn = "open"
  /\ bridge' = [bridge EXCEPT !.conn = "eof"]
  /\ UNCHANGED bridgeRest

\* the local service closes its connection
LocalPeerCloses ==
  /\ bridge.localConn = "open"
  /\ bridge' = [bridge EXCEPT !.localConn = "eof"]
  /\ UNCHANGED bridgeRest

\* client.go 566-580, 603-612: Client.Close cancels the context and closes
\* every tracked connection
Bridge_ClientClose ==
  /\ ~bridge.cancelled
  /\ bridge' = [bridge EXCEPT
       !.cancelled = TRUE,
       !.agentStream =
          IF bridge.agent \in {"DialContext", "wg.Wait"} THEN "closed" ELSE @,
       !.localConn = IF bridge.agent = "wg.Wait" THEN "closed" ELSE @]
  /\ UNCHANGED bridgeRest

\* transport.go 209-229: Session.Close closes the multiplexer
Bridge_SessionClose ==
  /\ bridge.session = "open"
  /\ bridge' = [bridge EXCEPT !.session = "closed"]
  /\ UNCHANGED bridgeRest

BridgeStep ==
  \/ bridgeTCPConnection
  \/ bridge_up
  \/ bridge_down
  \/ bridge_Wait
  \/ handleTCPStream
  \/ handleTCPStream_Dial
  \/ handleTCPStream_up
  \/ handleTCPStream_down
  \/ handleTCPStream_Wait

BridgeNext ==
  \/ bridgeTCPConnection_go
  \/ BridgeStep
  \/ bridge_WriteFails
  \/ ConnPeerCloses
  \/ LocalPeerCloses
  \/ Bridge_ClientClose
  \/ Bridge_SessionClose

BridgeInit ==
  /\ Connected
  /\ client = NoClient

SpecBridge == BridgeInit /\ [][BridgeNext]_vars

\* every goroutine of the two bridges that can take a step takes it; the
\* peers, Client.Close and Session.Close act or not
FairSpecBridge == SpecBridge /\ WF_vars(BridgeStep)

HubCopyEnded == "done" \in {bridge.hubCopy.up, bridge.hubCopy.down}
AgentCopyEnded == "done" \in {bridge.agentCopy.up, bridge.agentCopy.down}

\* C34: once one copy direction of a bridge has ended, the bridge closes its
\* connection and its stream and its goroutine returns
C34_BridgeEndsWithEitherCopy ==
  /\ HubCopyEnded ~>
       (bridge.hub = "returned" /\ bridge.conn = "closed"
        /\ bridge.hubStream = "closed")
  /\ AgentCopyEnded ~>
       (bridge.agent = "returned" /\ bridge.localConn = "closed"
        /\ bridge.agentStream = "closed")

\* ------------------------------------------- the TCP accept loop of a tunnel
\* server.go 306-341 (handleTCPListener) for one registered TCP tunnel:
\* bridge.accept is the loop's position, bridge.listener its listener,
\* bridge.session its session, bridge.entry whether the registry holds the
\* tunnel's entry, bridge.RateLimiter and bridge.RequestCount the entry's
\* fields, bridge.conn the connection the loop accepted last.
MaxAccepted == 3
AcceptLimits == {0, 1}

AcceptInit ==
  /\ Connected
  /\ client = NoClient

\* server.go 252-258, 291-296: the handshake of a TCP tunnel made the
\* entry's limiter and its lifecycle goroutine starts the accept loop
handleTCPListener_start ==
  /\ bridge.accept = "off"
  /\ \E N \in AcceptLimits :
       bridge' = [bridge EXCEPT !.accept = "Accept",
                                !.RateLimiter = NewLimiter(N)]
  /\ UNCHANGED bridgeRest

\* the accepted connection is not closed when the limiter refuses it
handleTCPListener_Allow_NoClose ==
  /\ bridge.accept = "Allow"
  /\ LET a == Allow(bridge.RateLimiter, now)
     IN  bridge' =
           IF bridge.RateLimiter # NoLimiter /\ ~a.ok
           THEN [bridge EXCEPT !.accept = "Add"]
           ELSE [bridge EXCEPT
                   !.accept = "Add",
                   !.RateLimiter = IF @ # NoLimiter THEN a.lim ELSE @]
  /\ UNCHANGED bridgeRest

\* server.go 310: listener.Accept() returns a connection; the bridge of the
\* connection before it has returned
handleTCPListener_Accept ==
  /\ bridge.accept = "Accept"
  /\ bridge.listener = "open"
  /\ bridge.accepted < MaxAccepted
  /\ bridge.hub \in {"off", "returned"}
  /\ bridge.agent \in {"off", "returned"}
  /\ bridge' = [bridge EXCEPT !.accept = "Get",
                              !.accepted = @ + 1,
                              !.conn = "open",
                              !.hub = "off",
                              !.agent = "off",
                              !.hubCopy = NoCopy,
                              !.agentCopy = NoCopy,
                              !.hubStream = "none",
                              !.agentStream = "none",
                              !.localConn = "none"]
  /\ UNCHANGED bridgeRest

\* server.go 311-320, 307: Accept fails on the closed listener; return when
\* the session's context is done, else log the error and accept again
handleTCPListener_err ==
  /\ bridge.accept = "Accept"
  /\ bridge.listener = "closed"
  /\ bridge' =
       IF bridge.session = "closed"
       THEN [bridge EXCEPT !.accept = "returned"]
       ELSE [bridge EXCEPT !.log = <<"TCP accept error">>]
  /\ bridge' # bridge
  /\ UNCHANGED bridgeRest

\* server.go 323-327
handleTCPListener_Get ==
  /\ bridge.accept = "Get"
  /\ bridge' = IF bridge.entry
               THEN [bridge EXCEPT !.accept = "Allow"]
               ELSE [bridge EXCEPT !.accept = "Accept", !.conn = "closed"]
  /\ UNCHANGED bridgeRest

\* server.go 330-334: a refused connection is closed and the loop goes on
handleTCPListener_Allow ==
  /\ bridge.accept = "Allow"
  /\ LET a == Allow(bridge.RateLimiter, now)
     IN  bridge' =
           IF bridge.RateLimiter # NoLimiter /\ ~a.ok
           THEN [bridge EXCEPT !.accept = "Accept", !.conn = "closed"]
           ELSE [bridge EXCEPT
                   !.accept = "Add",
                   !.RateLimiter = IF @ # NoLimiter THEN a.lim ELSE @]
  /\ UNCHANGED bridgeRest

\* server.go 336
handleTCPListener_Add ==
  /\ bridge.accept = "Add"
  /\ bridge' = [bridge EXCEPT !.accept = "go", !.RequestCount = Add(@, 1)]
  /\ UNCHANGED bridgeRest

\* server.go 339
handleTCPListener_go ==
  /\ bridge.accept = "go"
  /\ bridge' = [bridge EXCEPT !.accept = "Accept",
                              !.hub = "bridgeTCPConnection"]
  /\ UNCHANGED bridgeRest

\* registry.go 187-197: CloseAll reaches the tunnel's entry and closes its
\* listener, then its session
Accept_CloseAll ==
  /\ bridge.CloseAll = "off"
  /\ bridge.accept # "off"
  /\ bridge.entry
  /\ bridge' = [bridge EXCEPT !.CloseAll = "closeSession",
                              !.listener = "closed"]
  /\ UNCHANGED bridgeRest

Accept_CloseAll_closeSession ==
  /\ bridge.CloseAll = "closeSession"
  /\ bridge' = [bridge EXCEPT !.CloseAll = "done", !.session = "closed"]
  /\ UNCHANGED bridgeRest

\* server.go 286-288, 300; registry.go 141-153: the lifecycle goroutine wakes
\* when the session's context is done and calls Unregister, which removes
\* the entry and closes its listener
Accept_lifecycle ==
  /\ bridge.session = "closed"
  /\ bridge.entry
  /\ bridge' = [bridge EXCEPT !.entry = FALSE, !.listener = "closed"]
  /\ UNCHANGED bridgeRest

AcceptStep ==
  \/ handleTCPListener_err
  \/ handleTCPListener_Get
  \/ handleTCPListener_Allow
  \/ handleTCPListener_Add
  \/ handleTCPListener_go
  \/ Accept_CloseAll_closeSession
  \/ Accept_lifecycle

AcceptNext ==
  \/ handleTCPListener_start
  \/ handleTCPListener_Accept
  \/ AcceptStep
  \/ Accept_CloseAll
  \/ BridgeStep
  \/ bridge_WriteFails
  \/ ConnPeerCloses
  \/ LocalPeerCloses
  \/ Bridge_ClientClose

SpecAccept == AcceptInit /\ [][AcceptNext]_vars

\* the loop, CloseAll once called, the lifecycle goroutine and the bridges
\* take the steps they can take; connections arrive or not, peers close or
\* not, CloseAll is called or not
FairSpecAccept ==
  /\ SpecAccept
  /\ WF_vars(AcceptStep)
  /\ WF_vars(BridgeStep)

\* the limiter refuses the connection the loop is about to check
Denied ==
  /\ bridge.accept = "Allow"
  /\ bridge.RateLimiter # NoLimiter
  /\ ~Allow(bridge.RateLimiter, now).ok

\* C35: once the session is closed the accept loop returns; an accept error
\* ends the loop only when the session is closed; and a connection the rate
\* limiter refuses is closed, no bridge is started for it, no stream is
\* opened and the request counter keeps its value
C35_LoopEndsDeniedClosed ==
  /\ (bridge.session = "closed") ~> (bridge.accept = "returned")
  /\ [][/\ (bridge.accept # "returned" /\ bridge'.accept = "returned") =>
             (bridge.session = "closed" /\ bridge.listener = "closed")
        /\ (Denied /\ bridge'.accept # bridge.accept) =>
             /\ bridge'.accept = "Accept"
             /\ bridge'.conn = "closed"
             /\ bridge'.hub = "off"
             /\ bridge'.hubStream = "none"
             /\ bridge'.RequestCount = bridge.RequestCount]_vars
  /\ [](bridge.conn = "closed" /\ bridge.hub = "off" =>
          bridge.hubStream = "none")

\* one connection was admitted and counted, the next was refused and closed
\* with no bridge; CloseAll ran and the loop has returned
C35_Witness ==
  /\ bridge.accept = "returned"
  /\ bridge.accepted = 2
  /\ bridge.RequestCount = 1
  /\ bridge.conn = "closed"
  /\ bridge.hub = "off"

\* ------------------------------------------- the agent's stream accept loop
\* workers that have been started
Spawned(cl) == {w \in Workers : cl.worker[w].at # "off"}

\* C36: a successful AcceptStream starts exactly one worker and adds one to
\* the wait group; after a failed AcceptStream the loop ends when the
\* session is in the closed state and accepts again when it is not, whether
\* the agent's context is cancelled or not
C36_AcceptLoop ==
  [][/\ (/\ client.at = "Run_AcceptStream"
         /\ client'.worker # client.worker
         /\ client'.at = "Run_AcceptStream"
         /\ Spawned(client') # Spawned(client)) =>
          /\ ~client.closed
          /\ Cardinality(Spawned(client') \ Spawned(client)) = 1
          /\ Spawned(client) \subseteq Spawned(client')
          /\ client'.wg = client.wg + 1
     /\ (client.at = "Run_err" /\ client'.at # client.at) =>
          /\ client.closed => client'.at = "Run_wait"
          /\ ~client.closed => client'.at = "Run_AcceptStream"
          /\ Spawned(client') = Spawned(client)
     /\ (client.at \in {"Run_AcceptStream", "Run_err"}
         /\ client'.at \notin {"Run_AcceptStream", "Run_err"}) =>
          client.closed]_vars

\* AcceptStream failed after a worker had been started; the context is
\* cancelled and the session is not in the closed state
C36_Witness ==
  /\ client.at = "Run_err"
  /\ client.cancelled
  /\ ~client.closed
  /\ Spawned(client) # {}

\* ------------------------------------------ the agent: requests with a body
MaxBody == 2
Bodies == {b \in UNION {[1 .. n -> {"x", "y"}] : n \in 0 .. MaxBody} : TRUE}

BodyRequest(w) ==
  \E Body \in Bodies : RequestWithBody(w, <<>>, <<"a", ".", "b">>, Body)

BodyNext ==
  \/ Run
  \/ Run_AcceptStream
  \/ Run_err
  \/ Run_wait
  \/ heartbeat
  \/ Close_cancel
  \/ CloseStep
  \/ \E w \in Workers : BodyRequest(w) \/ LocalResponds(w) \/ WorkerStep(w)

SpecBody == RunInit /\ [][BodyNext]_vars

\* C37: no byte of the body is dropped between the stream and the local
\* connection: before the request is written, the reader and the stream hold
\* the whole body, in order; once it is written, the local connection has
\* received the head with the headers as modified and the whole body
C37_RequestForwardedIntact ==
  \A w \in Workers :
    LET wk == client.worker[w]
    IN  /\ wk.at \in {"handleStream_Buffered", "handleStream_Write"} =>
             wk.buffered \o wk.stream = wk.Body
        /\ wk.at = "handleStream_ReadResponse" =>
             /\ wk.wrote = wk.Body
             /\ wk.out.XForwardedProto = "https"

\* a request whose body was not in the reader's buffer is written whole
C37_UnbufferedBodyWritten ==
  \E w \in Workers :
    /\ client.worker[w].at = "handleStream_ReadResponse"
    /\ client.worker[w].Body # <<>>

\* ------------------------------------------------ wsConn.Read (transport)
\* ws.frames are the messages that have arrived on the WebSocket and that
\* NextReader has not returned yet, a closed connection being the last of
\* them; ws.reader and ws.message are c.reader and the bytes it has left;
\* ws.read is what the calls of Read have returned so far, ws.payloads what
\* the binary messages that arrived carried; ws.n, ws.err and ws.len are the
\* results and the buffer size of the last call.
wsRest ==
  <<regVars, sessVars, procVars, closeVars, log, wg, tpc, closeMu, config, req,
    RequestCount, RateLimiter, streams, now, shutdown, client, bridge>>

MaxFrames == 3
MaxPayload == 2
MaxReads == 4
BufSizes == 0 .. 2

\* websocket.TextMessage and websocket.BinaryMessage
TextMessage == "TextMessage"
BinaryMessage == "BinaryMessage"

\* one payload of each length, no two bytes of it alike
PayloadBytes == <<"x", "y", "z", "w">>
Payloads == {SubSeq(PayloadBytes, 1, n) : n \in 0 .. MaxPayload}
Frames ==
  {[messageType |-> BinaryMessage, payload |-> b] : b \in Payloads}
    \cup {[messageType |-> TextMessage, payload |-> b] :
            b \in {<<>>, <<"t">>}}
ConnClosed == [messageType |-> "", payload |-> <<>>]

\* every message is taken for data
Skipped_None(messageType) == FALSE

\* transport.go 66-68: messages that are not binary are skipped
Skipped(messageType) == messageType # BinaryMessage

\* transport.go 58-80: the results of one call of Read with a buffer of len
\* bytes on the adapter c, none while the call waits for a message.  The
\* message reader gives between 1 and len of the bytes it has left, and
\* io.EOF with the last of them or at the call after them.
RECURSIVE wsConn_Read(_, _)
wsConn_Read(c, len) ==
  IF c.reader = "nil"
  THEN IF c.frames = <<>> THEN {}
       ELSE LET f == Head(c.frames)
                next == [c EXCEPT !.frames = Tail(@)]
            IN  IF f = ConnClosed
                THEN {[c |-> c, b |-> <<>>, err |-> "closed"]}
                ELSE IF Skipped(f.messageType)
                THEN wsConn_Read(next, len)
                ELSE wsConn_Read([next EXCEPT !.reader = "set",
                                              !.message = f.payload], len)
  ELSE LET left == Len(c.message)
       IN  IF left = 0
           THEN wsConn_Read([c EXCEPT !.reader = "nil"], len)
           ELSE IF len = 0
           THEN {[c |-> c, b |-> <<>>, err |-> "nil"]}
           ELSE LET given(k) == SubSeq(c.message, 1, k)
                    after(k) == [c EXCEPT !.message = SubSeq(@, k + 1, left)]
                IN  {[c |-> after(k), b |-> given(k), err |-> "nil"] :
                       k \in 1 .. (IF len < left THEN len ELSE left)}
                    \cup
                    (IF len >= left
                     THEN {[c |-> [after(left) EXCEPT !.reader = "nil"],
                            b |-> given(left), err |-> "nil"]}
                     ELSE {})

\* a message arrives
FrameArrives ==
  /\ ws.arrived < MaxFrames
  /\ \A i \in DOMAIN ws.frames : ws.frames[i] # ConnClosed
  /\ \E f \in Frames :
       ws' = [ws EXCEPT
                !.frames = Append(@, f),
                !.arrived = @ + 1,
                !.payloads = IF f.messageType = BinaryMessage
                             THEN @ \o f.payload ELSE @]
  /\ UNCHANGED wsRest

\* the connection is closed or fails: NextReader returns an error from
\* there on
ConnCloses ==
  /\ \A i \in DOMAIN ws.frames : ws.frames[i] # ConnClosed
  /\ ws' = [ws EXCEPT !.frames = Append(@, ConnClosed)]
  /\ UNCHANGED wsRest

\* transport.go 55-81: one call of Read, from the lock to the return
Read ==
  /\ ws.calls < MaxReads
  /\ \E len \in BufSizes :
       \E r \in wsConn_Read(ws, len) :
         ws' = [r.c EXCEPT !.read = @ \o r.b,
                           !.n = Len(r.b),
                           !.err = r.err,
                           !.len = len,
                           !.calls = @ + 1]
  /\ UNCHANGED wsRest

ReadNext == FrameArrives \/ ConnCloses \/ Read

ReadInit ==
  /\ Connected
  /\ client = NoClient

SpecRead == ReadInit /\ [][ReadNext]_vars

\* the payloads of the binary messages of a sequence of frames, in order
RECURSIVE BinaryPayloads(_)
BinaryPayloads(fs) ==
  IF fs = <<>> THEN <<>>
  ELSE (IF Head(fs).messageType = BinaryMessage THEN Head(fs).payload
        ELSE <<>>) \o BinaryPayloads(Tail(fs))

\* C38: the bytes Read has returned, followed by what the message reader
\* has left and by the binary messages not yet taken, are the payloads of
\* the binary messages in their order of arrival; Read returns 0 bytes with
\* a nil error for an empty buffer only, and an error only when the
\* connection is closed and every byte that arrived has been returned
C38_ByteStreamOfBinaryFrames ==
  /\ ws.read \o ws.message \o BinaryPayloads(ws.frames) = ws.payloads
  /\ (ws.calls > 0 /\ ws.n = 0 /\ ws.err = "nil") => ws.len = 0
  /\ ws.err # "nil" =>
       /\ ws.frames = <<ConnClosed>>
       /\ ws.read = ws.payloads
  /\ ws.n <= ws.len

\* text messages and an empty binary message arrived around a binary
\* message of two bytes, which two calls with a buffer of one byte returned;
\* then the connection was closed and Read returned the error
C38_Witness ==
  /\ ws.arrived = 3
  /\ ws.payloads = <<"x", "y">>
  /\ ws.read = <<"x", "y">>
  /\ ws.calls = 3
  /\ ws.len = 1
  /\ ws.err = "closed"

\* ------------------------------------------ the handshake that lost the id
\* connection p is in the cleanup of a handshake that gave up: after a
\* failed registration (server.go 262-269) or a failed upgrade or listen
CleaningUp(p) ==
  \/ pc[p] = "handleConnect_registered" /\ res[p] # "nil"
  \/ pc[p] \in {"handleConnect_closeSession", "handleConnect_closeListener"}
  \/ pc[p] = "ReleaseTCPPort"

\* the listener and the port-map entry of a registry entry
PortEntry(m, e) == {t \in m : t.key = e.TCPPort}
ListenerOf(ls, e) == IF e.TCPListener # 0 THEN ls[e.TCPListener] ELSE "none"

\* C39: a step of the cleanup of a handshake whose registration failed
\* changes no registry entry and not Count(), closes no session but its
\* own and no listener but its own, removes from the port map nothing but
\* its own port, leaves the listener and the port of every registered entry
\* as they are, and never goes to Unregister; and an Unregister called by a
\* lifecycle goroutine removes no entry but the one holding its session
C39_LoserCleansOnlyItsOwn ==
  [][\A p \in Procs :
       /\ (CleaningUp(p) /\ pc'[p] # pc[p]) =>
            /\ sessions' = sessions
            /\ count' = count
            /\ \A o \in Objs : o # p => closed'[o] = closed[o]
            /\ \A o \in Objs : o # lst[p] => listeners'[o] = listeners[o]
            /\ \A t \in tcpPorts : t.key # port[p] => t \in tcpPorts'
            /\ tcpPorts' \subseteq tcpPorts
            /\ \A e \in sessions :
                 /\ e.Session # p
                 /\ ListenerOf(listeners', e) = ListenerOf(listeners, e)
                 /\ PortEntry(tcpPorts', e) = PortEntry(tcpPorts, e)
            /\ pc'[p] \notin {"Unregister", "Unregister_count",
                              "Unregister_close", "Unregister_release"}
       /\ (pc[p] = "Unregister" /\ pc'[p] # pc[p]) =>
            \A e \in sessions \ sessions' : e.Session = p
    ]_vars

\* two handshakes for one TCP tenant were both answered 101; the one that
\* lost the registration has closed its session and its listener and
\* released its port; the winner is registered with its listener open and
\* its port in the map
C39_Witness ==
  \E p, q \in Procs :
    /\ p # q
    /\ pc[p] = "done" /\ res[p] # "nil" /\ closed[p]
    /\ status[p] = StatusSwitchingProtocols
    /\ lst[p] # 0 /\ listeners[lst[p]] = "closed"
    /\ \A t \in tcpPorts : t.key # port[p]
    /\ \E e \in sessions :
         /\ e.Session = q
         /\ ~closed[q]
         /\ ListenerOf(listeners, e) = "open"
         /\ PortEntry(tcpPorts, e) # {}
    /\ count = 1

\* ------------------------------------------ the agent: Connect is cancelled
\* client.go 278-284: c.session is set by a Connect that succeeds (client.go
\* 249) and by nothing else, so after a Connect that returned an error
\* Run finds it nil and returns "not connected"
Run_notConnected ==
  /\ client.at = "returned"
  /\ client.err # ""
  /\ client.run = ""
  /\ client' = [client EXCEPT !.run = "not connected"]
  /\ UNCHANGED clientRest

CancelNext ==
  \/ Connect
  \/ Connect_Dial
  \/ Connect_failed
  \/ Connect_select
  \/ Cancel
  \/ Run_notConnected

SpecCancel == Init /\ [][CancelNext]_vars

\* C40: when the context is done while Connect waits before a retry, the
\* wait ends with Connect returning the context's error; from then on
\* nothing is dialled, the agent holds no session, and Run returns the
\* not-connected error
C40_CancelledWhileWaiting ==
  [][/\ (/\ client.at = "Connect_select"
         /\ client.ctxDone
         /\ client'.at # client.at) =>
          /\ client'.at = "returned"
          /\ client'.err = "ctx.Err"
          /\ client'.dials = client.dials
     /\ client.err = "ctx.Err" =>
          /\ client'.at = "returned"
          /\ client'.err = "ctx.Err"
          /\ client'.dials = client.dials
          /\ client'.run \in {"", "not connected"}
          /\ client'.waits = client.waits]_vars

\* two dials failed; the context was cancelled during the second wait;
\* Connect returned its error and Run returned "not connected"
C40_Witness ==
  /\ client.err = "ctx.Err"
  /\ client.run = "not connected"
  /\ client.dials = 2
  /\ client.waits = <<InitialReconnectDelay>>

====
